---- MODULE Spec2Model ----
(***************************************************************************)
(* nginx-conf-language: the tree renderer (src/generator/generator.ts) as  *)
(* a state machine over its call stack, and the parser's environment       *)
(* reference resolution (src/parser/parser.ts).                            *)
(*                                                                         *)
(* Text is kept as the code builds it: a rendered result is the sequence   *)
(* of its lines (join("\n") is concatenation of line sequences, the empty  *)
(* string is the empty sequence), a line is its indentation and its text.  *)
(* Strings the code inspects character by character (arguments,     *)
(* location paths) are sequences of one-character strings.                 *)
(***************************************************************************)
EXTENDS Integers, Sequences, FiniteSets, TLC

VARIABLES
    fs,              \* the disk: resolved path -> parsed content, NoFile or Unparsable
    ast,             \* generate(): the tree handed to the call
    givenOptions,    \* generate(): the options object handed to the call
    options,         \* Generator.options (after the constructor's defaults)
    currentFile,     \* Generator.currentFile
    indentLevel,     \* Generator.indentLevel
    variables,       \* Generator.variables: template name -> body block
    importStack,     \* Generator.importStack
    processedFiles,  \* Generator.processedFiles: resolved path -> cached tree
    stack,           \* activation records of the generateXxx methods, outermost first
    status,          \* "idle" | "running" | "throwing" | "done" | "failed"
    output,          \* the text generate() returned
    error,           \* the Error in flight or thrown by generate()
    parseCount,      \* instrumentation: tokenize+parse runs per resolved path
    tokens,          \* Parser.tokens: the token sequence handed to the parser
    environment,     \* process.env: the variables that are set, with their values
    parseStatus,     \* "ready" | "parsed" | "failed"
    parseResult,     \* the tree parse() returned
    parseError,      \* the Error parse() threw
    input,           \* Tokenizer.input: the text, a sequence of characters
    position,        \* Tokenizer.position + 1
    currentLine,     \* Tokenizer.line
    currentColumn,   \* Tokenizer.column
    previous         \* instrumentation: the texts rendered before input was fed back

generatorVars == <<fs, ast, givenOptions, options, currentFile, indentLevel, variables,
                   importStack, processedFiles, stack, status, output, error, parseCount>>
parserVars == <<tokens, environment, parseStatus, parseResult, parseError>>
tokenizerVars == <<input, position, currentLine, currentColumn, previous>>
vars == <<generatorVars, parserVars, tokenizerVars>>

-----------------------------------------------------------------------------
(* Bounds *)

MaxStmts == 2
MaxPaths == 2
MaxDepth == 8

-----------------------------------------------------------------------------
(* Sequences and strings *)

Range(s) == {s[i] : i \in 1..Len(s)}

RECURSIVE SeqsUpTo(_, _)
SeqsUpTo(S, n) ==
    IF n = 0 THEN {<<>>}
    ELSE LET shorter == SeqsUpTo(S, n - 1)
         IN  shorter \cup {Append(s, x) : s \in {t \in shorter : Len(t) = n - 1}, x \in S}

RECURSIVE Concat(_)
Concat(seqs) == IF seqs = <<>> THEN <<>> ELSE Head(seqs) \o Concat(Tail(seqs))

\* A character sequence as the text it stands for.
RECURSIVE Str(_)
Str(cs) == IF cs = <<>> THEN "" ELSE Head(cs) \o Str(Tail(cs))

\* Array.prototype.join(" ") over strings already converted to text.
RECURSIVE JoinSpace(_)
JoinSpace(ts) ==
    IF ts = <<>> THEN ""
    ELSE IF Len(ts) = 1 THEN ts[1]
    ELSE ts[1] \o " " \o JoinSpace(Tail(ts))

StartsWith(cs, prefix) ==
    /\ Len(cs) >= Len(prefix)
    /\ SubSeq(cs, 1, Len(prefix)) = prefix

EndsWith(cs, suffix) ==
    /\ Len(cs) >= Len(suffix)
    /\ SubSeq(cs, Len(cs) - Len(suffix) + 1, Len(cs)) = suffix

Substring(cs, from) == SubSeq(cs, from + 1, Len(cs))

-----------------------------------------------------------------------------
(* AST nodes (parser/ast) *)

Directive(name, args) == [type |-> "directive", name |-> name, args |-> args]

Block(name, args, children) ==
    [type |-> "block", name |-> name, args |-> args, children |-> children]

Location(modifier, paths, children) ==
    [type |-> "location", modifier |-> modifier, paths |-> paths, children |-> children]

VariableAssignment(name, children) ==
    [type |-> "variable_assignment", name |-> name, value |-> Block("", <<>>, children)]

InlineDirective(name) == [type |-> "inline", variableName |-> name]

Import(path) == [type |-> "import", path |-> path]

Config(children) == [type |-> "config", children |-> children]

\* LocationModifier enum: the strings the renderer prints.
ModNone == <<>>
ModExact == <<"=">>
ModRegex == <<"~">>
ModRegexCaseInsensitive == <<"~", "*">>
ModPrefix == <<"^", "~">>

-----------------------------------------------------------------------------
(* Tokens (parser/tokenizer) *)

Token(type, value, line) == [type |-> type, value |-> value, line |-> line]

EndOfFile == Token("EOF", "", 1)

-----------------------------------------------------------------------------
(* Paths (node:path on absolute POSIX paths) *)

\* A resolved path is the sequence of its segments below the root; an import
\* path as written is [abs, segs], its segments possibly "." or "..".
AbsPath(segs) == [abs |-> TRUE, segs |-> segs]
RelPath(segs) == [abs |-> FALSE, segs |-> segs]

\* process.cwd()
Cwd == <<>>

IsAbsolute(importPath) == importPath.abs

Dirname(file) == IF file = <<>> THEN <<>> ELSE SubSeq(file, 1, Len(file) - 1)

RECURSIVE Normalize(_, _)
Normalize(done, rest) ==
    IF rest = <<>> THEN done
    ELSE IF Head(rest) = "." THEN Normalize(done, Tail(rest))
    ELSE IF Head(rest) = ".."
         THEN Normalize(IF done = <<>> THEN <<>> ELSE SubSeq(done, 1, Len(done) - 1),
                        Tail(rest))
    ELSE Normalize(Append(done, Head(rest)), Tail(rest))

PathResolve(dir, segs) == Normalize(<<>>, dir \o segs)

\* Generator.resolveImportPath; cur is this.currentFile (the empty path when none was given).
ResolveImportPath(cur, importPath) ==
    IF IsAbsolute(importPath) THEN importPath.segs
    ELSE IF cur # <<>> THEN PathResolve(Dirname(cur), importPath.segs)
    ELSE PathResolve(Cwd, importPath.segs)

-----------------------------------------------------------------------------
(* Rendering helpers *)

DefaultIndent == "  "

\* The options object a caller passes: a record holding the properties given.
NoOptions == [property \in {} |-> TRUE]

\* Generator.constructor: options.expandInline || false
ExpandInlineOptionMutDefaultTrue(given) ==
    IF "expandInline" \in DOMAIN given THEN given.expandInline ELSE TRUE
ExpandInlineOption(given) ==
    IF "expandInline" \in DOMAIN given /\ given.expandInline THEN TRUE ELSE FALSE

\* Generator.constructor: options.indent || "  "
IndentOption(given) ==
    IF "indent" \in DOMAIN given /\ given.indent # "" THEN given.indent ELSE DefaultIndent

GeneratorOptions(given) ==
    [indent |-> IndentOption(given), expandInline |-> ExpandInlineOption(given)]

RECURSIVE Repeat(_, _)
Repeat(text, n) == IF n <= 0 THEN "" ELSE text \o Repeat(text, n - 1)

\* Generator.getIndent
GetIndent(opts, level) == Repeat(opts.indent, level)

Line(indent, text) == [indent |-> indent, text |-> text]

Whitespace == {" ", "\t", "\n"}
QuoteTriggers == {"{", "}", "(", ")", ";", ","}

\* Generator.quoteIfNeeded
QuoteIfNeeded(value) ==
    IF \/ (StartsWith(value, <<"\"">>) /\ EndsWith(value, <<"\"">>))
       \/ (StartsWith(value, <<"'">>) /\ EndsWith(value, <<"'">>))
    THEN value
    ELSE IF \E i \in 1..Len(value) : value[i] \in Whitespace \cup QuoteTriggers
    THEN <<"\"">> \o value \o <<"\"">>
    ELSE value

\* node.args.map(quoteIfNeeded).join(" ")
ArgsText(args) == JoinSpace([i \in 1..Len(args) |-> Str(QuoteIfNeeded(args[i]))])

\* `${node.name}${args ? " " + args : ""}`
NameAndArgs(node) ==
    LET args == ArgsText(node.args)
    IN  node.name \o (IF args # "" THEN " " \o args ELSE "")

\* Generator.generateDirective
DirectiveLine(opts, level, node) == Line(GetIndent(opts, level), NameAndArgs(node) \o ";")

\* Generator.generateBlock: header and footer
BlockHeader(opts, level, node) == Line(GetIndent(opts, level), NameAndArgs(node) \o " {")
Footer(opts, level) == Line(GetIndent(opts, level), "}")

\* Generator.generateSingleLocation: the modifier and path printed for a node.
ExtractModifierMutTildeFirst(node) ==
    LET path == node.paths[1]
    IN  IF StartsWith(path, <<"=">>) THEN [modifier |-> ModExact, path |-> Substring(path, 1)]
        ELSE IF StartsWith(path, <<"~">>)
             THEN [modifier |-> ModRegex, path |-> Substring(path, 1)]
        ELSE IF StartsWith(path, <<"~", "*">>)
             THEN [modifier |-> ModRegexCaseInsensitive, path |-> Substring(path, 2)]
        ELSE IF StartsWith(path, <<"^", "~">>)
             THEN [modifier |-> ModPrefix, path |-> Substring(path, 2)]
        ELSE [modifier |-> node.modifier, path |-> path]
ExtractModifier(node) ==
    LET path == node.paths[1]
    IN  IF StartsWith(path, <<"=">>) THEN [modifier |-> ModExact, path |-> Substring(path, 1)]
        ELSE IF StartsWith(path, <<"~", "*">>)
             THEN [modifier |-> ModRegexCaseInsensitive, path |-> Substring(path, 2)]
        ELSE IF StartsWith(path, <<"~">>)
             THEN [modifier |-> ModRegex, path |-> Substring(path, 1)]
        ELSE IF StartsWith(path, <<"^", "~">>)
             THEN [modifier |-> ModPrefix, path |-> Substring(path, 2)]
        ELSE [modifier |-> node.modifier, path |-> path]

LocationHeader(opts, level, node) ==
    LET m == ExtractModifier(node)
        modifierStr == IF m.modifier # <<>> THEN Str(m.modifier) \o " " ELSE ""
    IN  Line(GetIndent(opts, level),
             "location " \o modifierStr \o Str(QuoteIfNeeded(m.path)) \o " {")

\* Generator.generateInline, expansion disabled
InlineLineMutOldSyntax(opts, level, node) ==
    Line(GetIndent(opts, level), "@inline " \o node.variableName \o ";")
InlineLine(opts, level, node) ==
    Line(GetIndent(opts, level), "%inline(" \o node.variableName \o ");")

\* String.prototype.trim on the joined text: the first line loses its leading
\* whitespace (no line ends in whitespace).
Trim(lines) ==
    IF lines = <<>> THEN <<>>
    ELSE <<Line("", lines[1].text)>> \o Tail(lines)

\* Generator.collectVariables
RECURSIVE CollectVariables(_, _)
RECURSIVE CollectChildren(_, _)
RECURSIVE CollectChildrenMutTopLevelOnly(_, _)
CollectChildrenMutTopLevelOnly(children, table) ==
    IF children = <<>> THEN table
    ELSE CollectChildrenMutTopLevelOnly(
            Tail(children),
            IF Head(children).type = "variable_assignment"
            THEN (Head(children).name :> Head(children).value) @@ table
            ELSE table)
CollectChildren(children, table) ==
    IF children = <<>> THEN table
    ELSE CollectChildren(Tail(children), CollectVariables(Head(children), table))
\* collectVariables going on into the body of the definition it has entered
CollectVariablesMutIntoBodies(node, table) ==
    IF node.type = "variable_assignment"
    THEN CollectChildren(node.value.children, (node.name :> node.value) @@ table)
    ELSE IF "children" \in DOMAIN node THEN CollectChildren(node.children, table)
    ELSE table
\* this.variables.set skipped for a name the table already holds
CollectVariablesMutFirstWins(node, table) ==
    IF node.type = "variable_assignment" THEN table @@ (node.name :> node.value)
    ELSE IF "children" \in DOMAIN node THEN CollectChildren(node.children, table)
    ELSE table
CollectVariables(node, table) ==
    IF node.type = "variable_assignment" THEN (node.name :> node.value) @@ table
    ELSE IF "children" \in DOMAIN node THEN CollectChildren(node.children, table)
    ELSE table

EmptyTable == [n \in {} |-> <<>>]

\* generateImport's cycle check: this.importStack.includes(importPath)
IsCircularMutTopOnly(importStk, importPath) ==
    importStk # <<>> /\ importStk[Len(importStk)] = importPath
\* generateImport without its cycle check
IsCircularMutNever(importStk, importPath) == FALSE
IsCircular(importStk, importPath) == importPath \in Range(importStk)

-----------------------------------------------------------------------------
(* The files on disk and the trees they parse to *)

NoFile == [type |-> "no_file"]
Unparsable == [type |-> "unparsable"]

PA == <<"a.ncl">>
PB == <<"b.ncl">>
PC == <<"c.ncl">>
PD == <<"d.ncl">>
PM == <<"m.ncl">>

\* Files in the directory sub below the origin's directory.
PSubB == <<"sub", "b.ncl">>
PSubC == <<"sub", "c.ncl">>

FilePaths == {PA, PB, PC, PD}
AllPaths == FilePaths \cup {PM, PSubB, PSubC}

\* "./<name>" and "/<name>"
Rel(p) == RelPath(<<".">> \o p)
Abs(p) == AbsPath(p)

\* A directive that only the file at p contains.
Marker(p) == Directive("mark_" \o p[Len(p)], <<>>)

TName == "%t"
UName == "%u"
Hdr == Directive("add_header", <<<<"X">>, <<"1">>>>)
Hdr2 == Directive("add_header", <<<<"Y">>, <<"a", " ", "b">>>>)
Ret == Directive("return", <<<<"2", "0", "0">>>>)
Idx == Directive("index", <<<<"i">>>>)

\* Import graphs: the origin imports up to MaxStmts files, every other file is a
\* leaf or imports one file.
GraphOriginStmts == {Import(Rel(p)) : p \in {PA, PB, PC}}
GraphFileTrees(p) == {<<Marker(p)>>} \cup {<<Import(Rel(q))>> : q \in FilePaths}
GraphFileSystems ==
    {[p \in AllPaths |->
        IF p = PA THEN Config(a)
        ELSE IF p = PB THEN Config(b)
        ELSE IF p = PC THEN Config(c)
        ELSE IF p = PD THEN Config(d)
        ELSE NoFile] :
     a \in SeqsUpTo(GraphOriginStmts, MaxStmts),
     b \in GraphFileTrees(PB), c \in GraphFileTrees(PC), d \in GraphFileTrees(PD)}

\* Templates and imports: the origin has up to MaxStmts statements, b.ncl
\* defines or uses the template, is missing or does not parse.
TemplateOriginStmts ==
    {Marker(PA),
     VariableAssignment(TName, <<Hdr>>),
     InlineDirective(TName),
     InlineDirective(UName),
     Block("server", <<>>, <<InlineDirective(TName)>>),
     Block("http", <<>>, <<VariableAssignment(TName, <<Hdr>>)>>),
     Import(Rel(PB)),
     Import(Abs(PB)),
     Import(Rel(PA)),
     Block("events", <<>>, <<Import(Rel(PB))>>)}
TemplateFileContents ==
    {Config(<<VariableAssignment(TName, <<Hdr2>>)>>),
     Config(<<Marker(PB)>>),
     Config(<<InlineDirective(TName)>>),
     Config(<<Location(ModNone, <<<<"/", "a">>>>, <<VariableAssignment(TName, <<Hdr2>>)>>),
              Marker(PB)>>),
     Unparsable,
     NoFile}
TemplateFileSystems ==
    {[p \in AllPaths |->
        IF p = PA THEN Config(a) ELSE IF p = PB THEN b ELSE NoFile] :
     a \in SeqsUpTo(TemplateOriginStmts, MaxStmts), b \in TemplateFileContents}

\* Locations: one location statement, at top level or inside a block, with one
\* path and a parsed modifier or with a list of up to MaxPaths paths.
LocationPaths ==
    {<<"/", "a">>,
     <<"=", "/", "e">>,
     <<"~", "*", "/", "i">>,
     <<"~", "/", "r">>,
     <<"^", "~", "/", "p">>,
     <<"^", "/", "c">>,
     <<"/", "a", " ", "b">>}
Modifiers == {ModNone, ModExact, ModRegex, ModRegexCaseInsensitive, ModPrefix}
LocationChildren == {<<Ret>>, <<Idx, InlineDirective(TName)>>}
SinglePathLists == {<<p>> : p \in LocationPaths}
MultiPathLists == SeqsUpTo(LocationPaths, MaxPaths) \ ({<<>>} \cup SinglePathLists)
LocationNodes ==
    {Location(m, ps, ch) : m \in Modifiers, ps \in SinglePathLists, ch \in LocationChildren}
    \cup {Location(ModNone, ps, ch) : ps \in MultiPathLists, ch \in LocationChildren}
LocationTrees ==
    {<<l>> : l \in LocationNodes}
    \cup {<<VariableAssignment(TName, <<Hdr2>>), Block("server", <<>>, <<l>>)>> :
            l \in LocationNodes}
LocationFileSystems ==
    {[p \in AllPaths |-> IF p = PA THEN Config(a) ELSE NoFile] : a \in LocationTrees}

\* Expansion: one template with a body of zero to two statements, defined
\* before or after the one reference to it, the reference at top level, in a
\* block or in a location inside a block.
ExpansionBodies == {<<>>, <<Hdr, Hdr2>>, <<Hdr2, Block("types", <<>>, <<Idx>>)>>}
ExpansionPlaces ==
    {<<InlineDirective(TName)>>,
     <<Block("server", <<>>, <<Idx, InlineDirective(TName)>>)>>,
     <<Block("server", <<>>,
             <<Location(ModNone, <<<<"/", "a">>>>, <<InlineDirective(TName), Ret>>)>>)>>}
ExpansionTrees ==
    {<<VariableAssignment(TName, body)>> \o place :
        body \in ExpansionBodies, place \in ExpansionPlaces}
    \cup {place \o <<VariableAssignment(TName, body)>> :
            body \in ExpansionBodies, place \in ExpansionPlaces}
ExpansionFileSystems ==
    {[p \in AllPaths |-> IF p = PA THEN Config(a) ELSE NoFile] : a \in ExpansionTrees}

\* Directories: the origin imports sub/b.ncl, by a relative or an absolute
\* path, and then perhaps ./c.ncl; sub/b.ncl imports c.ncl as ./c.ncl,
\* ../c.ncl or /c.ncl, or nothing; c.ncl may exist beside the origin, beside
\* sub/b.ncl, or both.
SubMarker(p) == Directive("mark_" \o p[1] \o "_" \o p[2], <<>>)
DirectoryOriginTrees ==
    {<<Import(RelPath(<<".">> \o PSubB))>>,
     <<Import(RelPath(<<".">> \o PSubB)), Import(Rel(PC))>>,
     <<Import(AbsPath(PSubB)), Import(Rel(PC))>>}
DirectorySubTrees ==
    {<<Import(Rel(PC))>>,
     <<Import(RelPath(<<"..">> \o PC))>>,
     <<Import(Abs(PC))>>,
     <<SubMarker(PSubB)>>}
DirectoryFileSystems ==
    {[p \in AllPaths |->
        IF p = PA THEN Config(a)
        ELSE IF p = PSubB THEN Config(b)
        ELSE IF p = PC THEN c
        ELSE IF p = PSubC THEN subC
        ELSE NoFile] :
     a \in DirectoryOriginTrees, b \in DirectorySubTrees,
     c \in {Config(<<Marker(PC)>>), NoFile},
     subC \in {Config(<<SubMarker(PSubC)>>), NoFile}}

\* Duplicates: the origin defines the template twice, or defines it and imports
\* b.ncl, which defines it too or not, with references before and after.
DuplicateOriginTrees ==
    {<<VariableAssignment(TName, <<Hdr>>), VariableAssignment(TName, <<Hdr2>>),
       InlineDirective(TName)>>,
     <<VariableAssignment(TName, <<Hdr>>), InlineDirective(TName),
       VariableAssignment(TName, <<Hdr2>>)>>,
     <<VariableAssignment(TName, <<Hdr>>),
       Block("http", <<>>, <<VariableAssignment(TName, <<Hdr2>>)>>),
       InlineDirective(TName)>>,
     <<Block("http", <<>>, <<VariableAssignment(TName, <<Hdr2>>)>>),
       VariableAssignment(TName, <<Hdr>>),
       Block("server", <<>>, <<InlineDirective(TName)>>)>>,
     <<VariableAssignment(TName, <<Hdr>>), InlineDirective(TName), Import(Rel(PB)),
       InlineDirective(TName)>>,
     <<Import(Rel(PB)), VariableAssignment(TName, <<Hdr>>), InlineDirective(TName)>>,
     <<VariableAssignment(TName, <<Hdr>>), Block("server", <<>>, <<Import(Rel(PB))>>),
       InlineDirective(TName), Import(Rel(PB))>>}
DuplicateFileContents ==
    {Config(<<VariableAssignment(TName, <<Hdr2>>)>>),
     Config(<<VariableAssignment(TName, <<Hdr2>>), InlineDirective(TName),
              VariableAssignment(TName, <<Ret>>)>>),
     Config(<<Marker(PB), InlineDirective(TName)>>)}
DuplicateFileSystems ==
    {[p \in AllPaths |->
        IF p = PA THEN Config(a) ELSE IF p = PB THEN b ELSE NoFile] :
     a \in DuplicateOriginTrees, b \in DuplicateFileContents}

\* Nesting: %u is defined in a block, in a location inside a block, or in the
\* body of the definition of %t, and referred to at top level.
NestedDefinition == VariableAssignment(UName, <<Hdr>>)
NestedOriginTrees ==
    {<<Block("http", <<>>, <<Block("server", <<>>, <<NestedDefinition>>)>>),
       InlineDirective(UName)>>,
     <<Block("server", <<>>,
             <<Location(ModNone, <<<<"/", "a">>>>, <<Ret, NestedDefinition>>)>>),
       InlineDirective(UName)>>,
     <<InlineDirective(UName), Location(ModNone, <<<<"/", "a">>>>, <<NestedDefinition>>)>>,
     <<VariableAssignment(TName, <<NestedDefinition, Hdr2>>), InlineDirective(UName)>>,
     <<VariableAssignment(TName, <<NestedDefinition, Hdr2>>), InlineDirective(TName),
       InlineDirective(UName)>>,
     <<VariableAssignment(TName, <<Block("server", <<>>, <<NestedDefinition>>)>>),
       InlineDirective(TName), InlineDirective(UName)>>}
NestedFileSystems ==
    {[p \in AllPaths |-> IF p = PA THEN Config(a) ELSE NoFile] : a \in NestedOriginTrees}

\* Recursion: the body of %t refers to %t, or to %u whose body refers to %t.
RecursiveOriginTrees ==
    {<<VariableAssignment(TName, <<Hdr, InlineDirective(TName)>>), InlineDirective(TName)>>,
     <<VariableAssignment(TName, <<InlineDirective(UName)>>),
       VariableAssignment(UName, <<Block("server", <<>>, <<InlineDirective(TName)>>)>>),
       InlineDirective(TName)>>,
     <<VariableAssignment(TName, <<Hdr, InlineDirective(TName)>>), Ret>>}
RecursiveFileSystems ==
    {[p \in AllPaths |-> IF p = PA THEN Config(a) ELSE NoFile] : a \in RecursiveOriginTrees}

FileSystems ==
    GraphFileSystems \cup TemplateFileSystems \cup LocationFileSystems
    \cup ExpansionFileSystems \cup DirectoryFileSystems \cup DuplicateFileSystems
    \cup NestedFileSystems \cup RecursiveFileSystems

\* The options a caller passes: expandInline given or left out.
GivenOptions == {NoOptions, [expandInline |-> TRUE], [expandInline |-> FALSE]}

OriginPaths == {PA}

\* readFileSync + tokenize + parse of an existing file: the tree its text
\* parses to.
ParsedContent(content) == content

-----------------------------------------------------------------------------
(* The renderer *)

NoError == [type |-> "none"]
CircularDependency(cycle) == [type |-> "Circular dependency detected", cycle |-> cycle]
ImportNotFound(path) == [type |-> "Import file not found", path |-> path]
EnvironmentNotSet(name) ==
    [type |-> "Environment variable is not set and no default value provided", name |-> name]
UndefinedVariable(name) == [type |-> "Undefined variable", name |-> name]
\* The TypeError of 'path.startsWith' with path = node.paths[0] undefined.
PathUndefined == [type |-> "TypeError: Cannot read properties of undefined"]
ParseFailure(path) == [type |-> "parse error", path |-> path]

NoLine == Line("", "")

\* An activation record: the statements the method loops over, the index of
\* the next one, the lines collected so far and, for a block or location, the
\* header and footer computed on entry; for generateImportedContent, its
\* filePath argument.
NoPath == <<>>
Frame(kind, nodes, header, footer, filePath) ==
    [kind |-> kind, nodes |-> nodes, i |-> 1, lines |-> <<>>,
     header |-> header, footer |-> footer, filePath |-> filePath]

Top == stack[Len(stack)]
Pop(s) == SubSeq(s, 1, Len(s) - 1)

Looping == status = "running" /\ stack # <<>> /\ Top.i <= Len(Top.nodes)
Finished == status = "running" /\ stack # <<>> /\ Top.i > Len(Top.nodes)
NextNode == Top.nodes[Top.i]

\* The child's text reaches the caller's loop: pushed when not empty.
Deliver(s, generated) ==
    [s EXCEPT ![Len(s)] = [@ EXCEPT !.lines = @ \o generated, !.i = @ + 1]]

\* generateNode dispatches on node.type from every loop but generateLocation's.
Dispatches(type) == Looping /\ Top.kind # "locations" /\ NextNode.type = type

\* The parser at rest: nothing to parse, nothing set.
NoEnvironment == [name \in {} |-> ""]
ParserIdle ==
    /\ tokens = <<EndOfFile>>
    /\ environment = NoEnvironment
    /\ parseStatus = "ready"
    /\ parseResult = Config(<<>>)
    /\ parseError = NoError

\* The tokenizer at rest: no text.
TokenizerIdle ==
    /\ input = <<>>
    /\ position = 1
    /\ currentLine = 1
    /\ currentColumn = 1
    /\ previous = <<>>

\* The generator before any call.
GeneratorIdle ==
    /\ ast = Config(<<>>)
    /\ givenOptions = NoOptions
    /\ options = GeneratorOptions(NoOptions)
    /\ currentFile = NoPath
    /\ indentLevel = 0
    /\ variables = EmptyTable
    /\ importStack = <<>>
    /\ processedFiles = EmptyTable
    /\ stack = <<>>
    /\ status = "idle"
    /\ output = <<>>
    /\ error = NoError
    /\ parseCount = [p \in AllPaths |-> 0]

Init ==
    /\ TokenizerIdle
    /\ ParserIdle
    /\ fs \in FileSystems
    /\ GeneratorIdle

\* generate(ast, options, filePath): new Generator(options).generate(ast, filePath)
\* up to the first statement of generateConfig.
Generate(given, filePath) ==
    /\ status \in {"idle", "done", "failed"}
    /\ fs[filePath].type = "config"
    /\ ast' = ParsedContent(fs[filePath])
    /\ givenOptions' = given
    /\ options' = GeneratorOptions(given)
    /\ currentFile' = filePath
    /\ indentLevel' = 0
    /\ variables' = CollectVariables(ast', EmptyTable)
    /\ importStack' = <<>>
    /\ processedFiles' = EmptyTable
    /\ stack' = <<Frame("config", ast'.children, NoLine, NoLine, NoPath)>>
    /\ status' = "running"
    /\ output' = <<>>
    /\ error' = NoError
    /\ parseCount' = [p \in AllPaths |-> 0]
    /\ UNCHANGED <<tokenizerVars, parserVars, fs>>

GenerateDirective ==
    /\ Dispatches("directive")
    /\ stack' = Deliver(stack, <<DirectiveLine(options, indentLevel, NextNode)>>)
    /\ UNCHANGED <<tokenizerVars, parserVars, fs, ast, givenOptions, options, currentFile, indentLevel, variables, importStack,
                   processedFiles, status, output, error, parseCount>>

\* generateNode's case "variable_assignment", and generateImportedContent's
\* filter on child.type: nothing is rendered.
SkipVariableAssignment ==
    /\ Dispatches("variable_assignment")
    /\ stack' = Deliver(stack, <<>>)
    /\ UNCHANGED <<tokenizerVars, parserVars, fs, ast, givenOptions, options, currentFile, indentLevel, variables, importStack,
                   processedFiles, status, output, error, parseCount>>

\* generateBlock up to its loop
GenerateBlock ==
    /\ Dispatches("block")
    /\ Len(stack) < MaxDepth
    /\ stack' = Append(stack, Frame("block", NextNode.children,
                                    BlockHeader(options, indentLevel, NextNode),
                                    Footer(options, indentLevel), NoPath))
    /\ indentLevel' = indentLevel + 1
    /\ UNCHANGED <<tokenizerVars, parserVars, fs, ast, givenOptions, options, currentFile, variables, importStack,
                   processedFiles, status, output, error, parseCount>>

\* generateSingleLocation up to its loop
SingleLocationFrame(node) ==
    Frame("location", node.children,
          LocationHeader(options, indentLevel, node), Footer(options, indentLevel), NoPath)

\* generateLocation's copies { ...node, paths: [path] }, in the order rendered
Throw(e) ==
    /\ status' = "throwing"
    /\ error' = e

SinglePathCopiesMutReversed(node) ==
    [i \in 1..Len(node.paths) |->
        [node EXCEPT !.paths = <<node.paths[Len(node.paths) + 1 - i]>>]]
SinglePathCopies(node) ==
    [i \in 1..Len(node.paths) |-> [node EXCEPT !.paths = <<node.paths[i]>>]]

\* generateLocation: a list of paths starts the loop over its copies, one path
\* goes straight to generateSingleLocation.
GenerateLocation ==
    /\ Dispatches("location")
    /\ Len(stack) < MaxDepth
    /\ IF Len(NextNode.paths) > 1
       THEN /\ stack' = Append(stack, Frame("locations", SinglePathCopies(NextNode),
                                            NoLine, NoLine, NoPath))
            /\ UNCHANGED <<indentLevel, status, error>>
       ELSE IF NextNode.paths = <<>>
       THEN /\ Throw(PathUndefined)
            /\ UNCHANGED <<stack, indentLevel>>
       ELSE /\ stack' = Append(stack, SingleLocationFrame(NextNode))
            /\ indentLevel' = indentLevel + 1
            /\ UNCHANGED <<status, error>>
    /\ UNCHANGED <<tokenizerVars, parserVars, fs, ast, givenOptions, options, currentFile, variables, importStack,
                   processedFiles, output, parseCount>>

\* generateLocation's loop body: generateSingleLocation(singleLocation)
GenerateSingleLocation ==
    /\ Looping
    /\ Top.kind = "locations"
    /\ Len(stack) < MaxDepth
    /\ stack' = Append(stack, SingleLocationFrame(NextNode))
    /\ indentLevel' = indentLevel + 1
    /\ UNCHANGED <<tokenizerVars, parserVars, fs, ast, givenOptions, options, currentFile, variables, importStack,
                   processedFiles, status, output, error, parseCount>>

\* generateInline
GenerateInlineMutIndented ==
    /\ Dispatches("inline")
    /\ IF ~options.expandInline
       THEN /\ stack' = Deliver(stack, <<InlineLine(options, indentLevel, NextNode)>>)
            /\ UNCHANGED <<status, error, indentLevel>>
       ELSE IF NextNode.variableName \notin DOMAIN variables
       THEN /\ Throw(UndefinedVariable(NextNode.variableName))
            /\ UNCHANGED <<stack, indentLevel>>
       ELSE /\ Len(stack) < MaxDepth
            /\ stack' = Append(stack, Frame("inline",
                                            variables[NextNode.variableName].children,
                                            NoLine, NoLine, NoPath))
            /\ indentLevel' = indentLevel + 1
            /\ UNCHANGED <<status, error>>
    /\ UNCHANGED <<tokenizerVars, parserVars, fs, ast, givenOptions, options, currentFile, variables, importStack,
                   processedFiles, output, parseCount>>
GenerateInline ==
    /\ Dispatches("inline")
    /\ IF ~options.expandInline
       THEN /\ stack' = Deliver(stack, <<InlineLine(options, indentLevel, NextNode)>>)
            /\ UNCHANGED <<status, error>>
       ELSE IF NextNode.variableName \notin DOMAIN variables
       THEN /\ Throw(UndefinedVariable(NextNode.variableName))
            /\ UNCHANGED stack
       ELSE /\ Len(stack) < MaxDepth
            /\ stack' = Append(stack, Frame("inline",
                                            variables[NextNode.variableName].children,
                                            NoLine, NoLine, NoPath))
            /\ UNCHANGED <<status, error>>
    /\ UNCHANGED <<tokenizerVars, parserVars, fs, ast, givenOptions, options, currentFile, indentLevel, variables, importStack,
                   processedFiles, output, parseCount>>

\* readFileSync of a missing file taken for an empty file
FileContentMutMissingIsEmpty(path) ==
    IF path \in DOMAIN fs /\ fs[path] # NoFile THEN fs[path] ELSE Config(<<>>)

FileContent(path) == IF path \in DOMAIN fs THEN fs[path] ELSE NoFile

\* generateImportedContent up to its loop: push the path, collect the file's
\* templates into the shared table.
ImportedVariablesMutNotCollected(tree, table) == table
ImportedVariables(tree, table) == CollectVariables(tree, table)

EnterImportedContent(tree, path) ==
    /\ Len(stack) < MaxDepth
    /\ importStack' = Append(importStack, path)
    /\ variables' = ImportedVariables(tree, variables)
    /\ stack' = Append(stack, Frame("import", tree.children, NoLine, NoLine, path))
    /\ UNCHANGED <<status, error>>

\* processedFiles.has(importPath)
IsCachedMutNever(cache, importPath) == FALSE
IsCached(cache, importPath) == importPath \in DOMAIN cache

\* generateImport looking in the cache before it checks for a cycle
GenerateImportMutCacheFirst ==
    /\ Dispatches("import")
    /\ LET importPath == ResolveImportPath(currentFile, NextNode.path)
       IN  IF IsCached(processedFiles, importPath)
           THEN /\ EnterImportedContent(processedFiles[importPath], importPath)
                /\ UNCHANGED <<processedFiles, parseCount>>
           ELSE IF IsCircular(importStack, importPath)
           THEN /\ Throw(CircularDependency(Append(importStack, importPath)))
                /\ UNCHANGED <<stack, importStack, variables, processedFiles, parseCount>>
           ELSE IF FileContent(importPath) = NoFile
           THEN /\ Throw(ImportNotFound(importPath))
                /\ UNCHANGED <<stack, importStack, variables, processedFiles, parseCount>>
           ELSE IF FileContent(importPath) = Unparsable
           THEN /\ Throw(ParseFailure(importPath))
                /\ parseCount' = [parseCount EXCEPT ![importPath] = @ + 1]
                /\ UNCHANGED <<stack, importStack, variables, processedFiles>>
           ELSE /\ parseCount' = [parseCount EXCEPT ![importPath] = @ + 1]
                /\ processedFiles' =
                       (importPath :> ParsedContent(FileContent(importPath))) @@ processedFiles
                /\ EnterImportedContent(ParsedContent(FileContent(importPath)), importPath)
    /\ UNCHANGED <<tokenizerVars, parserVars, fs, ast, givenOptions, options, currentFile, indentLevel, output>>

\* generateImport
GenerateImport ==
    /\ Dispatches("import")
    /\ LET importPath == ResolveImportPath(currentFile, NextNode.path)
       IN  IF IsCircular(importStack, importPath)
           THEN /\ Throw(CircularDependency(Append(importStack, importPath)))
                /\ UNCHANGED <<stack, importStack, variables, processedFiles, parseCount>>
           ELSE IF IsCached(processedFiles, importPath)
           THEN /\ EnterImportedContent(processedFiles[importPath], importPath)
                /\ UNCHANGED <<processedFiles, parseCount>>
           ELSE IF FileContent(importPath) = NoFile
           THEN /\ Throw(ImportNotFound(importPath))
                /\ UNCHANGED <<stack, importStack, variables, processedFiles, parseCount>>
           ELSE IF FileContent(importPath) = Unparsable
           THEN /\ Throw(ParseFailure(importPath))
                /\ parseCount' = [parseCount EXCEPT ![importPath] = @ + 1]
                /\ UNCHANGED <<stack, importStack, variables, processedFiles>>
           ELSE /\ parseCount' = [parseCount EXCEPT ![importPath] = @ + 1]
                /\ processedFiles' =
                       (importPath :> ParsedContent(FileContent(importPath))) @@ processedFiles
                /\ EnterImportedContent(ParsedContent(FileContent(importPath)), importPath)
    /\ UNCHANGED <<tokenizerVars, parserVars, fs, ast, givenOptions, options, currentFile, indentLevel, output>>

\* generateEnvironmentVariable with the default tried before process.env
GenerateEnvironmentVariableMutDefaultFirst ==
    /\ Dispatches("env_var")
    /\ IF "defaultValue" \in DOMAIN NextNode
       THEN /\ stack' = Deliver(stack, IF NextNode.defaultValue = "" THEN <<>>
                                       ELSE <<Line("", NextNode.defaultValue)>>)
            /\ UNCHANGED <<status, error>>
       ELSE IF NextNode.variableName \in DOMAIN environment
       THEN /\ stack' = Deliver(stack, IF environment[NextNode.variableName] = "" THEN <<>>
                                       ELSE <<Line("", environment[NextNode.variableName])>>)
            /\ UNCHANGED <<status, error>>
       ELSE /\ Throw(EnvironmentNotSet(NextNode.variableName))
            /\ UNCHANGED stack
    /\ UNCHANGED <<tokenizerVars, parserVars, fs, ast, givenOptions, options, currentFile,
                   indentLevel, variables, importStack, processedFiles, output, parseCount>>

\* generateEnvironmentVariable: the value of process.env, else the default,
\* returned as the statement's text (an empty text is not pushed by the
\* caller's loop); neither: it throws.
GenerateEnvironmentVariable ==
    /\ Dispatches("env_var")
    /\ IF NextNode.variableName \in DOMAIN environment
       THEN /\ stack' = Deliver(stack, IF environment[NextNode.variableName] = "" THEN <<>>
                                       ELSE <<Line("", environment[NextNode.variableName])>>)
            /\ UNCHANGED <<status, error>>
       ELSE IF "defaultValue" \in DOMAIN NextNode
       THEN /\ stack' = Deliver(stack, IF NextNode.defaultValue = "" THEN <<>>
                                       ELSE <<Line("", NextNode.defaultValue)>>)
            /\ UNCHANGED <<status, error>>
       ELSE /\ Throw(EnvironmentNotSet(NextNode.variableName))
            /\ UNCHANGED stack
    /\ UNCHANGED <<tokenizerVars, parserVars, fs, ast, givenOptions, options, currentFile,
                   indentLevel, variables, importStack, processedFiles, output, parseCount>>

\* generateBlock and generateSingleLocation returning without this.indentLevel--
FinishBlockMutNoRestore ==
    /\ Finished
    /\ Top.kind \in {"block", "location"}
    /\ stack' = Deliver(Pop(stack), <<Top.header>> \o Top.lines \o <<Top.footer>>)
    /\ UNCHANGED <<tokenizerVars, parserVars, fs, ast, givenOptions, options, currentFile,
                   indentLevel, variables, importStack, processedFiles, status, output,
                   error, parseCount>>

\* generateBlock and generateSingleLocation after their loop
FinishBlock ==
    /\ Finished
    /\ Top.kind \in {"block", "location"}
    /\ indentLevel' = indentLevel - 1
    /\ stack' = Deliver(Pop(stack), <<Top.header>> \o Top.lines \o <<Top.footer>>)
    /\ UNCHANGED <<tokenizerVars, parserVars, fs, ast, givenOptions, options, currentFile, variables, importStack,
                   processedFiles, status, output, error, parseCount>>

\* generateLocation after its loop: blocks.join("\n")
FinishLocations ==
    /\ Finished
    /\ Top.kind = "locations"
    /\ stack' = Deliver(Pop(stack), Top.lines)
    /\ UNCHANGED <<tokenizerVars, parserVars, fs, ast, givenOptions, options, currentFile, indentLevel, variables, importStack,
                   processedFiles, status, output, error, parseCount>>

\* generateInline after its loop
FinishInline ==
    /\ Finished
    /\ Top.kind = "inline"
    /\ stack' = Deliver(Pop(stack), Top.lines)
    /\ UNCHANGED <<tokenizerVars, parserVars, fs, ast, givenOptions, options, currentFile, indentLevel, variables, importStack,
                   processedFiles, status, output, error, parseCount>>

\* generateImportedContent after its loop, through its finally
FinishImportedContentMutNoPop ==
    /\ Finished
    /\ Top.kind = "import"
    /\ stack' = Deliver(Pop(stack), Top.lines)
    /\ UNCHANGED <<tokenizerVars, parserVars, fs, ast, givenOptions, options, currentFile, indentLevel, variables,
                   importStack, processedFiles, status, output, error, parseCount>>
FinishImportedContent ==
    /\ Finished
    /\ Top.kind = "import"
    /\ importStack' = Pop(importStack)
    /\ stack' = Deliver(Pop(stack), Top.lines)
    /\ UNCHANGED <<tokenizerVars, parserVars, fs, ast, givenOptions, options, currentFile, indentLevel, variables,
                   processedFiles, status, output, error, parseCount>>

\* generateConfig after its loop, and generate's trim and return
FinishConfig ==
    /\ Finished
    /\ Top.kind = "config"
    /\ output' = Trim(Top.lines)
    /\ status' = "done"
    /\ stack' = Pop(stack)
    /\ UNCHANGED <<tokenizerVars, parserVars, fs, ast, givenOptions, options, currentFile, indentLevel, variables, importStack,
                   processedFiles, error, parseCount>>

\* An exception leaves a method that has no handler: its frame is dropped as
\* it stands.
Propagate ==
    /\ status = "throwing"
    /\ stack # <<>>
    /\ Top.kind \in {"block", "location", "locations", "inline"}
    /\ stack' = Pop(stack)
    /\ UNCHANGED <<tokenizerVars, parserVars, fs, ast, givenOptions, options, currentFile, indentLevel, variables, importStack,
                   processedFiles, status, output, error, parseCount>>

\* An exception that leaves generateImportedContent without its finally
PropagateThroughFinallyMutNoPop ==
    /\ status = "throwing"
    /\ stack # <<>>
    /\ Top.kind = "import"
    /\ stack' = Pop(stack)
    /\ UNCHANGED <<tokenizerVars, parserVars, fs, ast, givenOptions, options, currentFile,
                   indentLevel, variables, importStack, processedFiles, status, output,
                   error, parseCount>>

\* An exception leaves generateImportedContent through its finally.
PropagateThroughFinally ==
    /\ status = "throwing"
    /\ stack # <<>>
    /\ Top.kind = "import"
    /\ importStack' = Pop(importStack)
    /\ stack' = Pop(stack)
    /\ UNCHANGED <<tokenizerVars, parserVars, fs, ast, givenOptions, options, currentFile, indentLevel, variables,
                   processedFiles, status, output, error, parseCount>>

\* The exception leaves generateConfig and generate: the call fails.
GenerateThrows ==
    /\ status = "throwing"
    /\ stack # <<>>
    /\ Top.kind = "config"
    /\ stack' = Pop(stack)
    /\ status' = "failed"
    /\ UNCHANGED <<tokenizerVars, parserVars, fs, ast, givenOptions, options, currentFile, indentLevel, variables, importStack,
                   processedFiles, output, error, parseCount>>

Next ==
    \/ \E given \in GivenOptions, filePath \in OriginPaths : Generate(given, filePath)
    \/ GenerateDirective
    \/ SkipVariableAssignment
    \/ GenerateBlock
    \/ GenerateLocation
    \/ GenerateSingleLocation
    \/ GenerateInline
    \/ GenerateImport
    \/ FinishBlock
    \/ FinishLocations
    \/ FinishInline
    \/ FinishImportedContent
    \/ FinishConfig
    \/ Propagate
    \/ PropagateThroughFinally
    \/ GenerateThrows

Spec == Init /\ [][Next]_vars

-----------------------------------------------------------------------------
(* What the files say, read off the trees without rendering them *)

RECURSIVE RepeatSeq(_, _)
RepeatSeq(seq, n) == IF n <= 0 THEN <<>> ELSE seq \o RepeatSeq(seq, n - 1)

\* The import statements a rendering of these statements meets, in order, as
\* resolved paths: those at top level and inside blocks and locations (once per
\* path of a location), not those inside template definitions.
RECURSIVE ImportTargets(_)
ImportTargets(children) ==
    IF children = <<>> THEN <<>>
    ELSE LET node == Head(children)
             here == CASE node.type = "import" ->
                             <<ResolveImportPath(currentFile, node.path)>>
                       [] node.type = "block" -> ImportTargets(node.children)
                       [] node.type = "location" ->
                             RepeatSeq(ImportTargets(node.children),
                                       IF Len(node.paths) > 1 THEN Len(node.paths) ELSE 1)
                       [] OTHER -> <<>>
         IN  here \o ImportTargets(Tail(children))

FileImports(path) ==
    IF FileContent(path).type = "config" THEN ImportTargets(FileContent(path).children)
    ELSE <<>>

\* The import graph over resolved paths.
Edge(from, to) == to \in Range(FileImports(from))

RECURSIVE Closure(_, _)
Closure(paths, fuel) ==
    LET more == paths \cup UNION {Range(FileImports(p)) : p \in paths}
    IN  IF fuel = 0 \/ more = paths THEN paths ELSE Closure(more, fuel - 1)

Descendants(path) == Closure(Range(FileImports(path)), Cardinality(AllPaths))

GraphHasCycle ==
    \E p \in {currentFile} \cup Descendants(currentFile) : p \in Descendants(p)

\* The template names a tree defines at top level or inside blocks and
\* locations.
RECURSIVE DefinedNames(_)
DefinedNames(children) ==
    UNION {LET node == children[i]
           IN  CASE node.type = "variable_assignment" -> {node.name}
                 [] node.type \in {"block", "location"} -> DefinedNames(node.children)
                 [] OTHER -> {}
           : i \in 1..Len(children)}

\* The files whose generateImportedContent is on the call stack.
FilesBeingImported ==
    {stack[i].filePath : i \in {j \in 1..Len(stack) : stack[j].kind = "import"}}

Circular == error.type = "Circular dependency detected"

RECURSIVE CountText(_, _)
CountText(lines, text) ==
    IF lines = <<>> THEN 0
    ELSE (IF Head(lines).text = text THEN 1 ELSE 0) + CountText(Tail(lines), text)

-----------------------------------------------------------------------------
(* Claims *)

C1_ChainIsACycle ==
    Circular =>
        LET chain == error.cycle
        IN  /\ Len(chain) >= 2
            /\ \E i \in 1..(Len(chain) - 1) : chain[i] = chain[Len(chain)]
            /\ \A i \in 1..(Len(chain) - 1) : Edge(chain[i], chain[i + 1])

C1_ReturningImportThrows ==
    (/\ Dispatches("import")
     /\ ResolveImportPath(currentFile, NextNode.path) \in FilesBeingImported)
    => /\ status' = "throwing"
       /\ error'.type = "Circular dependency detected"
       /\ FilesBeingImported \subseteq Range(error'.cycle)
       /\ error'.cycle[Len(error'.cycle)] = ResolveImportPath(currentFile, NextNode.path)

\* C1: an import that resolves to a file whose import is still being rendered
\* makes generate throw 'Circular dependency detected', and the chain in the
\* message is made of real import steps, closes on a file it already holds and
\* holds every file being imported.
C1_CircularImportFails == []C1_ChainIsACycle /\ [][C1_ReturningImportThrows]_vars

\* C1 witness: generate has failed on a cycle through three files.
C1_Witness ==
    /\ status = "failed"
    /\ Circular
    /\ Cardinality(Range(error.cycle)) = 3

RECURSIVE TimesImported(_, _, _)
RECURSIVE SumTimes(_, _, _)
SumTimes(targets, target, fuel) ==
    IF targets = <<>> THEN 0
    ELSE (IF Head(targets) = target THEN 1 ELSE 0)
         + TimesImported(Head(targets), target, fuel)
         + SumTimes(Tail(targets), target, fuel)
TimesImported(path, target, fuel) ==
    IF fuel = 0 THEN 0 ELSE SumTimes(FileImports(path), target, fuel - 1)

ImportCount(target) == TimesImported(currentFile, target, Cardinality(AllPaths) + 1)

MarkerText(path) == Marker(path).name \o ";"

\* C3: when generate returns, a file imported k times (directly or through
\* other files) has its content in the output k times and was read and parsed
\* once; no file is ever parsed twice in one call.
C3_RenderedEachTimeParsedOnce ==
    /\ \A p \in AllPaths : parseCount[p] <= 1
    /\ status = "done" =>
          \A p \in FilePaths \ {currentFile} :
             /\ parseCount[p] = (IF ImportCount(p) > 0 THEN 1 ELSE 0)
             /\ FileContent(p) = Config(<<Marker(p)>>)
                    => CountText(output, MarkerText(p)) = ImportCount(p)

\* C3 witness: b.ncl was imported twice in sequence, rendered twice, parsed once.
C3_Witness ==
    /\ status = "done"
    /\ FileImports(PA) = <<PB, PB>>
    /\ output = <<Line("", MarkerText(PB)), Line("", MarkerText(PB))>>
    /\ parseCount[PB] = 1

UndefinedError == error.type = "Undefined variable"

\* The bodies a tree gives to the template `name`, at top level or inside
\* blocks and locations.
RECURSIVE Bodies(_, _)
Bodies(children, name) ==
    UNION {LET node == children[i]
           IN  CASE node.type = "variable_assignment" ->
                        IF node.name = name THEN {node.value} ELSE {}
                 [] node.type \in {"block", "location"} -> Bodies(node.children, name)
                 [] OTHER -> {}
           : i \in 1..Len(children)}

\* The files read so far by this call, and the names and bodies they define.
FilesImported == {p \in AllPaths : parseCount[p] > 0 /\ FileContent(p).type = "config"}
NamesImported == UNION {DefinedNames(FileContent(p).children) : p \in FilesImported}
BodiesImported(name) == UNION {Bodies(FileContent(p).children, name) : p \in FilesImported}
NamesOnDisk ==
    UNION {DefinedNames(FileContent(p).children) :
             p \in {q \in AllPaths : FileContent(q).type = "config"}}

C4_UndefinedOnlyIfNotDefined ==
    UndefinedError =>
        /\ options.expandInline
        /\ error.name \notin DefinedNames(ast.children)

C4_ReferenceStep ==
    (Dispatches("inline") /\ options.expandInline) =>
        LET name == NextNode.variableName
        IN  IF name \in DefinedNames(ast.children)
            THEN /\ status' = "running"
                 /\ Len(stack') = Len(stack) + 1
                 /\ stack'[Len(stack')].kind = "inline"
            ELSE name \notin NamesOnDisk =>
                     /\ status' = "throwing"
                     /\ error' = UndefinedVariable(name)

\* C4: with expansion enabled, a reference to a name no file defines throws
\* 'Undefined variable: <name>', and a reference to a name the tree handed to
\* generate defines anywhere (top level or inside a block or location, before
\* or after the reference) is expanded and never reported undefined.
C4_UndefinedTemplateFails == []C4_UndefinedOnlyIfNotDefined /\ [][C4_ReferenceStep]_vars

\* C4 witness: a reference at top level was expanded from a definition that
\* follows it inside a block.
C4_Witness ==
    /\ status = "done"
    /\ options.expandInline
    /\ ast.children = <<InlineDirective(TName),
                        Block("http", <<>>, <<VariableAssignment(TName, <<Hdr>>)>>)>>
    /\ output = <<Line("", "add_header X 1;"), Line("", "http {"), Line("", "}")>>

C5_TableHoldsImportedTemplates ==
    status # "idle" =>
        /\ DOMAIN variables = DefinedNames(ast.children) \cup NamesImported
        /\ \A name \in DOMAIN variables \ DefinedNames(ast.children) :
              variables[name] \in BodiesImported(name)

C5_ReferenceStep ==
    (/\ Dispatches("inline")
     /\ options.expandInline
     /\ NextNode.variableName \notin DefinedNames(ast.children))
    => IF NextNode.variableName \in NamesImported
       THEN /\ status' = "running"
            /\ stack'[Len(stack')].kind = "inline"
            /\ \E body \in BodiesImported(NextNode.variableName) :
                  stack'[Len(stack')].nodes = body.children
       ELSE /\ status' = "throwing"
            /\ error' = UndefinedVariable(NextNode.variableName)

\* C5: a template that only imported files define is in the lookup table from
\* the moment the import of a defining file is processed: a reference rendered
\* after that expands to the imported body, a reference rendered before it
\* throws 'Undefined variable'.
C5_ImportedTemplateVisibleAfterImport ==
    []C5_TableHoldsImportedTemplates /\ [][C5_ReferenceStep]_vars

\* C5 witness: the origin imports b.ncl, which defines the template, and then
\* references it; the imported body is in the output.
C5_Witness ==
    /\ status = "done"
    /\ ast.children = <<Import(Rel(PB)), InlineDirective(TName)>>
    /\ FileContent(PB) = Config(<<VariableAssignment(TName, <<Hdr2>>)>>)
    /\ output = <<Line("", "add_header Y \"a b\";")>>

-----------------------------------------------------------------------------
(* Locations *)

\* What nginx expects for each path of the catalogue when the node carries no
\* modifier of its own: the sigil split from the path by one space.
SigilHeaderText(path) ==
    CASE path = <<"=", "/", "e">> -> "location = /e {"
      [] path = <<"~", "*", "/", "i">> -> "location ~* /i {"
      [] path = <<"~", "/", "r">> -> "location ~ /r {"
      [] path = <<"^", "~", "/", "p">> -> "location ^~ /p {"
      [] path = <<"/", "a">> -> "location /a {"
      [] path = <<"^", "/", "c">> -> "location ^/c {"
      [] path = <<"/", "a", " ", "b">> -> "location \"/a b\" {"

HasSigil(path) ==
    path \in {<<"=", "/", "e">>, <<"~", "*", "/", "i">>, <<"~", "/", "r">>,
              <<"^", "~", "/", "p">>}

ModifierText(modifier) ==
    CASE modifier = ModNone -> ""
      [] modifier = ModExact -> "= "
      [] modifier = ModRegex -> "~ "
      [] modifier = ModRegexCaseInsensitive -> "~* "
      [] modifier = ModPrefix -> "^~ "

PlainPathText(path) ==
    CASE path = <<"/", "a">> -> "/a"
      [] path = <<"^", "/", "c">> -> "^/c"
      [] path = <<"/", "a", " ", "b">> -> "\"/a b\""

\* The header a location with this modifier and this one path must get.
ExpectedHeaderText(modifier, path) ==
    IF HasSigil(path) THEN SigilHeaderText(path)
    ELSE "location " \o ModifierText(modifier) \o PlainPathText(path) \o " {"

\* lines is made of one block per path, in the order of paths: header of the
\* path, the same inner lines in every block, the closing brace at the
\* header's indentation.
IsBlockPerPath(lines, paths) ==
    LET n == Len(paths)
    IN  /\ Len(lines) % n = 0
        /\ Len(lines) \div n >= 2
        /\ LET size == Len(lines) \div n
               block(k) == SubSeq(lines, (k - 1) * size + 1, k * size)
               inner(k) == SubSeq(block(k), 2, size - 1)
           IN  \A k \in 1..n :
                  /\ block(k)[1].text = SigilHeaderText(paths[k])
                  /\ block(k)[1].indent = lines[1].indent
                  /\ block(k)[size] = Line(lines[1].indent, "}")
                  /\ inner(k) = inner(1)
                  /\ \A i \in 1..Len(inner(k)) : inner(k)[i].text \notin {"}", "{"}

\* The multi-path location of the tree handed to generate, when it is the
\* only statement or the only statement of the server block.
TopLevelLocation == ast.children[1]
NestedLocation == ast.children[2].children[1]
IsTopLevelMultiPath ==
    /\ Len(ast.children) = 1
    /\ ast.children[1].type = "location"
    /\ Len(ast.children[1].paths) > 1
IsNestedMultiPath ==
    /\ Len(ast.children) = 2
    /\ ast.children[2].type = "block"
    /\ ast.children[2].name = "server"
    /\ Len(ast.children[2].children) = 1
    /\ ast.children[2].children[1].type = "location"
    /\ Len(ast.children[2].children[1].paths) > 1

\* C7: a location with a list of n >= 2 paths is rendered as n consecutive
\* location blocks in the order of the list, one per path, with the same
\* child lines in each and nothing wrapped around them.
C7_MultiPathLocationExpands ==
    status = "done" =>
        /\ IsTopLevelMultiPath =>
              /\ IsBlockPerPath(output, TopLevelLocation.paths)
              /\ output[1].indent = ""
        /\ IsNestedMultiPath =>
              /\ output[1] = Line("", "server {")
              /\ output[Len(output)] = Line("", "}")
              /\ IsBlockPerPath(SubSeq(output, 2, Len(output) - 1), NestedLocation.paths)
              /\ output[2].indent = DefaultIndent

\* C7 witness: 'location in [=/e, /a] { return 200; }' has rendered as two
\* blocks.
C7_Witness ==
    /\ status = "done"
    /\ ast.children = <<Location(ModNone, <<<<"=", "/", "e">>, <<"/", "a">>>>, <<Ret>>)>>
    /\ output = <<Line("", "location = /e {"), Line("  ", "return 200;"), Line("", "}"),
                  Line("", "location /a {"), Line("  ", "return 200;"), Line("", "}")>>

\* The location node whose header a generateSingleLocation frame holds: the
\* caller's current node.
HeaderNode(j) == stack[j - 1].nodes[stack[j - 1].i]

\* C8: every location header printed has the modifier separated from the path
\* by one space: '=', '~*', '~' and '^~' at the start of a path become the
\* header's modifier, a path with none of them keeps the node's own modifier
\* (none for the entries of a list), and the header ends in ' {'.
C8_ModifierExtractedFromPath ==
    \A j \in 2..Len(stack) :
        stack[j].kind = "location" =>
            /\ Len(HeaderNode(j).paths) = 1
            /\ stack[j].header.text =
                   ExpectedHeaderText(HeaderNode(j).modifier, HeaderNode(j).paths[1])
            /\ stack[j - 1].kind = "locations" => HeaderNode(j).modifier = ModNone

\* C8 witness: 'location in [~*/i, /a]' has rendered: the first block carries
\* the case-insensitive modifier, the second none.
C8_Witness ==
    /\ status = "done"
    /\ ast.children =
           <<Location(ModNone, <<<<"~", "*", "/", "i">>, <<"/", "a">>>>, <<Ret>>)>>
    /\ output = <<Line("", "location ~* /i {"), Line("  ", "return 200;"), Line("", "}"),
                  Line("", "location /a {"), Line("  ", "return 200;"), Line("", "}")>>

-----------------------------------------------------------------------------
(* Template references *)

RefText(name) == "%inline(" \o name \o ");"
TemplateNames == {TName, UName}
TemplateBodyTexts == {"add_header X 1;", "add_header Y \"a b\";"}

\* How many references to `name` a rendering of these statements meets
\* outside template definitions and imported files (once per path of a
\* location).
RECURSIVE CountRefs(_, _)
CountRefs(children, name) ==
    IF children = <<>> THEN 0
    ELSE LET node == Head(children)
             here == CASE node.type = "inline" ->
                             IF node.variableName = name THEN 1 ELSE 0
                       [] node.type = "block" -> CountRefs(node.children, name)
                       [] node.type = "location" ->
                             CountRefs(node.children, name)
                             * (IF Len(node.paths) > 1 THEN Len(node.paths) ELSE 1)
                       [] OTHER -> 0
         IN  here + CountRefs(Tail(children), name)

RECURSIVE RefsInImports(_, _)
RefsInImports(paths, name) ==
    IF paths = {} THEN 0
    ELSE LET p == CHOOSE q \in paths : TRUE
         IN  (IF FileContent(p).type = "config"
              THEN ImportCount(p) * CountRefs(FileContent(p).children, name)
              ELSE 0)
             + RefsInImports(paths \ {p}, name)

\* The references to `name` met by a whole rendering that expands nothing.
RenderedReferences(name) ==
    CountRefs(ast.children, name) + RefsInImports(AllPaths \ {currentFile}, name)

ExpandInlineGiven == "expandInline" \in DOMAIN givenOptions
ReferencesKept ==
    \A name \in TemplateNames : CountText(output, RefText(name)) = RenderedReferences(name)

Depth == Cardinality({j \in 1..Len(stack) : stack[j].kind \in {"block", "location"}})

C10_NothingLookedUp ==
    (status # "idle" /\ ~options.expandInline) =>
        /\ ~UndefinedError
        /\ \A j \in 1..Len(stack) : stack[j].kind # "inline"
        /\ status = "done" =>
              /\ ReferencesKept
              /\ \A i \in 1..Len(output) : output[i].text \notin TemplateBodyTexts

C10_ReferenceStep ==
    (Dispatches("inline") /\ ~options.expandInline) =>
        /\ status' = "running"
        /\ stack' = Deliver(stack, <<Line(Repeat(DefaultIndent, Depth),
                                          RefText(NextNode.variableName))>>)

\* C10: with expansion disabled every reference is emitted as
\* '<indentation>%inline(<name>);' with nothing looked up: generate never
\* throws 'Undefined variable', defined name or not, and no statement of a
\* template body is in the output.
C10_DisabledExpansionKeepsReferences ==
    []C10_NothingLookedUp /\ [][C10_ReferenceStep]_vars

\* C10 witness: with expandInline = false, a reference to a template nobody
\* defines and an indented reference to a defined one are both in the output.
C10_Witness ==
    /\ status = "done"
    /\ ExpandInlineGiven
    /\ ~options.expandInline
    /\ ast.children = <<InlineDirective(UName), Block("server", <<>>, <<InlineDirective(TName)>>)>>
    /\ output = <<Line("", "%inline(%u);"), Line("", "server {"),
                  Line("  ", "%inline(%t);"), Line("", "}")>>

\* The body of the template `name` in the tree handed to generate: that of
\* its last definition in source order.
RECURSIVE LastBody(_, _, _)
LastBody(children, name, found) ==
    IF children = <<>> THEN found
    ELSE LET node == Head(children)
         IN  LastBody(Tail(children), name,
                      CASE node.type = "variable_assignment" ->
                               IF node.name = name THEN node.value ELSE found
                        [] node.type \in {"block", "location"} ->
                               LastBody(node.children, name, found)
                        [] OTHER -> found)
BodyOf(name) == LastBody(ast.children, name, Block("", <<>>, <<>>))

\* The lines a tree without imports must render to when references are
\* expanded: a directive is one line at its depth, a block or location its
\* header, its children one level deeper and its closing brace, a definition
\* nothing, and a reference the statements of the template body at the depth
\* of the reference.
RECURSIVE ExpandedLines(_, _)
ExpandedLines(children, depth) ==
    IF children = <<>> THEN <<>>
    ELSE LET node == Head(children)
             indent == Repeat(DefaultIndent, depth)
             inner == IF "children" \in DOMAIN node
                      THEN ExpandedLines(node.children, depth + 1) ELSE <<>>
             here ==
                CASE node.type = "directive" -> <<Line(indent, NameAndArgs(node) \o ";")>>
                  [] node.type = "block" ->
                        <<Line(indent, NameAndArgs(node) \o " {")>> \o inner
                        \o <<Line(indent, "}")>>
                  [] node.type = "location" ->
                        Concat([k \in 1..Len(node.paths) |->
                                  <<Line(indent,
                                         ExpectedHeaderText(node.modifier, node.paths[k]))>>
                                  \o inner \o <<Line(indent, "}")>>])
                  [] node.type = "inline" ->
                        ExpandedLines(BodyOf(node.variableName).children, depth)
                  [] OTHER -> <<>>
         IN  here \o ExpandedLines(Tail(children), depth)

HasNoImports == ImportTargets(ast.children) = <<>>

\* C11: with expansion enabled, a reference at depth d is rendered as the
\* statements of the template body at depth d, in body order, with no line
\* before or after them; the output holds no line for the definition and no
\* reference syntax.
C11_ReferenceExpandsAtItsDepth ==
    (status = "done" /\ options.expandInline /\ HasNoImports) =>
        /\ output = Trim(ExpandedLines(ast.children, 0))
        /\ \A name \in TemplateNames : CountText(output, RefText(name)) = 0

\* C11 witness: a two-statement template referenced inside a location inside
\* a server block has rendered at the location's child depth.
C11_Witness ==
    /\ status = "done"
    /\ options.expandInline
    /\ ast.children =
           <<VariableAssignment(TName, <<Hdr, Hdr2>>),
             Block("server", <<>>,
                   <<Location(ModNone, <<<<"/", "a">>>>, <<InlineDirective(TName), Ret>>)>>)>>
    /\ output = <<Line("", "server {"),
                  Line("  ", "location /a {"),
                  Line("    ", "add_header X 1;"),
                  Line("    ", "add_header Y \"a b\";"),
                  Line("    ", "return 200;"),
                  Line("  ", "}"),
                  Line("", "}")>>

-----------------------------------------------------------------------------
(* Imports: where a path resolves, what a call leaves behind *)

\* The file that holds the statement being rendered: the innermost imported
\* file being rendered, the origin when there is none.
ContainingFile ==
    IF importStack = <<>> THEN currentFile ELSE importStack[Len(importStack)]

\* The path generateImport went on with: the one it entered, or the one its
\* error names.
ImportTaken(expected) ==
    \/ /\ status' = "running"
       /\ importStack' = Append(importStack, expected)
    \/ /\ status' = "throwing"
       /\ error'.type = "Circular dependency detected"
       /\ error'.cycle = Append(importStack, expected)
    \/ /\ status' = "throwing"
       /\ error'.type \in {"Import file not found", "parse error"}
       /\ error'.path = expected

\* C17 as stated: an import statement's relative path is resolved against the
\* directory of the file that holds the statement, an absolute path is taken
\* as it is.
C17_ResolvedAgainstContainingFile ==
    [][Dispatches("import") =>
         ImportTaken(IF IsAbsolute(NextNode.path) THEN NextNode.path.segs
                     ELSE PathResolve(Dirname(ContainingFile), NextNode.path.segs))]_vars

\* One call of generate after another: the caller keeps what each call
\* returned or threw, next to what it was called with.
MaxCalls == 3

Returned ==
    [given |-> givenOptions, filePath |-> currentFile, status |-> status,
     output |-> output, error |-> error]

\* A later call that went on with the tables of the call before it.
GenerateAgainMutReused(given, filePath) ==
    /\ status \in {"done", "failed"}
    /\ Len(previous) < MaxCalls - 1
    /\ fs[filePath].type = "config"
    /\ previous' = Append(previous, Returned)
    /\ ast' = ParsedContent(fs[filePath])
    /\ givenOptions' = given
    /\ options' = GeneratorOptions(given)
    /\ currentFile' = filePath
    /\ indentLevel' = 0
    /\ variables' = CollectVariables(ast', variables)
    /\ importStack' = <<>>
    /\ processedFiles' = processedFiles
    /\ stack' = <<Frame("config", ast'.children, NoLine, NoLine, NoPath)>>
    /\ status' = "running"
    /\ output' = <<>>
    /\ error' = NoError
    /\ parseCount' = [p \in AllPaths |-> 0]
    /\ UNCHANGED <<input, position, currentLine, currentColumn, parserVars, fs>>

\* generate(ast, options, filePath) called after an earlier call has returned
\* or thrown: new Generator(options).generate(ast, filePath), up to the first
\* statement of generateConfig.
GenerateAgain(given, filePath) ==
    /\ status \in {"done", "failed"}
    /\ Len(previous) < MaxCalls - 1
    /\ fs[filePath].type = "config"
    /\ previous' = Append(previous, Returned)
    /\ ast' = ParsedContent(fs[filePath])
    /\ givenOptions' = given
    /\ options' = GeneratorOptions(given)
    /\ currentFile' = filePath
    /\ indentLevel' = 0
    /\ variables' = CollectVariables(ast', EmptyTable)
    /\ importStack' = <<>>
    /\ processedFiles' = EmptyTable
    /\ stack' = <<Frame("config", ast'.children, NoLine, NoLine, NoPath)>>
    /\ status' = "running"
    /\ output' = <<>>
    /\ error' = NoError
    /\ parseCount' = [p \in AllPaths |-> 0]
    /\ UNCHANGED <<input, position, currentLine, currentColumn, parserVars, fs>>

FirstCall(given, filePath) ==
    /\ status = "idle"
    /\ Generate(given, filePath)

NextCalls ==
    \/ \E given \in GivenOptions, filePath \in OriginPaths : FirstCall(given, filePath)
    \/ \E given \in GivenOptions, filePath \in OriginPaths : GenerateAgain(given, filePath)
    \/ GenerateDirective
    \/ SkipVariableAssignment
    \/ GenerateBlock
    \/ GenerateLocation
    \/ GenerateSingleLocation
    \/ GenerateInline
    \/ GenerateImport
    \/ FinishBlock
    \/ FinishLocations
    \/ FinishInline
    \/ FinishImportedContent
    \/ FinishConfig
    \/ Propagate
    \/ PropagateThroughFinally
    \/ GenerateThrows

SpecCalls == Init /\ [][NextCalls]_vars

\* The names a tree defines, wherever in it.
DefinedIn(tree) == DOMAIN CollectVariables(tree, EmptyTable)

\* C18: a call works on tables of its own: every file in its cache was read
\* and parsed in this call, every template in its table is defined in its
\* tree or in a file it cached; and what a call returns or throws is what any
\* earlier call with the same options and origin path returned or threw,
\* whatever calls came between them.
C18_CallsShareNothing ==
    /\ \A path \in DOMAIN processedFiles : parseCount[path] = 1
    /\ status # "idle" =>
          DOMAIN variables \subseteq
              DefinedIn(ast) \cup
              UNION {DefinedIn(processedFiles[path]) : path \in DOMAIN processedFiles}
    /\ status \in {"done", "failed"} =>
          \A i \in 1..Len(previous) :
              (previous[i].given = givenOptions /\ previous[i].filePath = currentFile) =>
                  /\ previous[i].status = status
                  /\ previous[i].output = output
                  /\ previous[i].error = error

\* C18 witness: a call that fails on a template only an imported file defines,
\* a call with expansion off that imports that file and returns, and the first
\* call again, failing as it did.
C18_Witness ==
    /\ Len(previous) = 2
    /\ previous[1].status = "failed"
    /\ previous[1].error = UndefinedVariable(TName)
    /\ previous[2].status = "done"
    /\ previous[2].given # previous[1].given
    /\ givenOptions = previous[1].given
    /\ status = "failed"
    /\ error = UndefinedVariable(TName)
    /\ TName \notin DOMAIN variables

\* C19, the step: an import of a path that is neither being rendered nor
\* cached and at which no file exists throws 'Import file not found' with the
\* path resolveImportPath returned, and leaves the cache and the import stack
\* as they were.
C19_MissingImportThrows ==
    Dispatches("import") =>
        LET importPath == ResolveImportPath(currentFile, NextNode.path)
        IN  (/\ importPath \notin Range(importStack)
             /\ importPath \notin DOMAIN processedFiles
             /\ (importPath \notin DOMAIN fs \/ fs[importPath] = NoFile)) =>
                /\ status' = "throwing"
                /\ error' = ImportNotFound(importPath)
                /\ processedFiles' = processedFiles
                /\ importStack' = importStack
                /\ parseCount' = parseCount

\* C19, the states: once 'Import file not found' is thrown the call is on its
\* way out or has failed, nothing is cached or was read for the path named,
\* and no text is returned.
C19_NothingCachedNothingReturned ==
    error.type = "Import file not found" =>
        /\ status \in {"throwing", "failed"}
        /\ error.path \notin DOMAIN processedFiles
        /\ error.path \in DOMAIN parseCount => parseCount[error.path] = 0
        /\ output = <<>>

\* C19: importing a path at which no file exists makes generate fail with
\* 'Import file not found: <resolved path>'; nothing is cached for the path
\* and no output is returned. A call that is on its way out with an error
\* never returns: it stays so until it has failed.
C19_MissingImportFails ==
    /\ []C19_NothingCachedNothingReturned
    /\ [][C19_MissingImportThrows]_vars
    /\ [][status = "throwing" => status' \in {"throwing", "failed"}]_vars

\* C19 witness: sub/b.ncl was imported and cached, its import of c.ncl found
\* no file, and the call has failed.
C19_Witness ==
    /\ status = "failed"
    /\ error = ImportNotFound(PC)
    /\ DOMAIN processedFiles = {PSubB}
    /\ output = <<>>
    /\ stack = <<>>

\* The frames of generateImportedContent on the call stack, outermost first.
ImportFrames == SelectSeq(stack, LAMBDA frame : frame.kind = "import")

\* The import statement a frame of generateImportedContent was entered for:
\* the statement its caller's loop is at.
EnteredFor(i) == stack[i - 1].nodes[stack[i - 1].i]

\* C20, the states: the import stack is the filePath of each running
\* generateImportedContent, outermost first; each is the resolved path of the
\* import statement it was entered for; no path is there twice; and the stack
\* is empty when generate has returned or failed.
C20_StackIsDescentPath ==
    /\ importStack = [i \in 1..Len(ImportFrames) |-> ImportFrames[i].filePath]
    /\ \A i \in 2..Len(stack) :
          stack[i].kind = "import" =>
              /\ EnteredFor(i).type = "import"
              /\ stack[i].filePath = ResolveImportPath(currentFile, EnteredFor(i).path)
    /\ \A i, j \in 1..Len(importStack) : importStack[i] = importStack[j] => i = j
    /\ status \in {"idle", "done", "failed"} => importStack = <<>>

\* C20, the steps: the stack changes by one push when generateImportedContent
\* is entered and by one pop when it is left, by return or by throw, and at
\* no other step.
C20_PushMatchedByPop ==
    /\ (status = "running" /\ status' = "running" /\ Len(stack') > Len(stack)
           /\ stack'[Len(stack')].kind = "import") =>
          importStack' = Append(importStack, stack'[Len(stack')].filePath)
    /\ (stack # <<>> /\ Top.kind = "import" /\ Len(stack') < Len(stack)) =>
          importStack' = Pop(importStack)
    /\ importStack' # importStack =>
          \/ Len(stack') > Len(stack) /\ stack'[Len(stack')].kind = "import"
          \/ Len(stack') < Len(stack) /\ Top.kind = "import"
          \/ status' = "running" /\ status # "running"

\* C20: import-stack discipline.
C20_ImportStackDiscipline ==
    /\ []C20_StackIsDescentPath
    /\ [][C20_PushMatchedByPop]_vars

\* C20 witness: an error thrown two imports deep has left both through their
\* finally, and the call has failed with the stack empty.
C20_Witness ==
    /\ status = "failed"
    /\ error.type = "Circular dependency detected"
    /\ Len(error.cycle) = 3
    /\ importStack = <<>>
    /\ stack = <<>>

-----------------------------------------------------------------------------
(* The depth counter *)

\* The activations of generateBlock and generateSingleLocation on the call
\* stack.
BlocksEntered(s) == Len(SelectSeq(s, LAMBDA frame : frame.kind \in {"block", "location"}))

\* C21 as stated: indentLevel is restored on every exit of generateBlock and
\* generateSingleLocation, a throw included, so it is 0 whenever generate has
\* returned or failed.
C21_Original ==
    /\ status \in {"throwing", "failed"} => indentLevel = BlocksEntered(stack)
    /\ status \in {"done", "failed"} => indentLevel = 0

\* The steps of an exception on its way out leave indentLevel as the throw
\* found it: no method restores it.
C21_ThrowKeepsDepth ==
    (status = "throwing" \/ status' = "throwing") => indentLevel' = indentLevel

\* C21, amended: while rendering, indentLevel is the number of blocks and
\* locations entered and not yet left, each return of generateBlock and
\* generateSingleLocation restoring the value at its entry, so it is 0 when
\* generate returns; a throw restores nothing: indentLevel stays what it was
\* at the throw, the number of blocks and locations around the statement that
\* threw, also when generate has failed.
C21_IndentRestoredOnReturn ==
    /\ [](status = "running" => indentLevel = BlocksEntered(stack))
    /\ [](status = "done" => indentLevel = 0)
    /\ [](status \in {"throwing", "failed"} => indentLevel >= BlocksEntered(stack))
    /\ [][C21_ThrowKeepsDepth]_vars

\* C21 witness: an undefined template inside a block made generate fail, and
\* indentLevel is still 1.
C21_Witness ==
    /\ status = "failed"
    /\ error = UndefinedVariable(TName)
    /\ ast.children[1] = Block("server", <<>>, <<InlineDirective(TName)>>)
    /\ indentLevel = 1
    /\ stack = <<>>


-----------------------------------------------------------------------------
(* Several definitions of one template *)

\* The template definitions the collection pass meets in a tree, in source
\* order.
RECURSIVE Definitions(_)
RECURSIVE DefinitionsIn(_)
DefinitionsIn(children) ==
    IF children = <<>> THEN <<>>
    ELSE Definitions(Head(children)) \o DefinitionsIn(Tail(children))
Definitions(node) ==
    IF node.type = "variable_assignment" THEN <<node>>
    ELSE IF "children" \in DOMAIN node THEN DefinitionsIn(node.children)
    ELSE <<>>

\* Whether a tree defines the name where the collection pass looks, and its
\* last definition of it in source order.
NamedIn(tree, name) == SelectSeq(Definitions(tree), LAMBDA d : d.name = name)
LastDefinition(tree, name) == NamedIn(tree, name)[Len(NamedIn(tree, name))].value

\* A collection pass over a tree leaves in the table, for every name the tree
\* defines, the tree's last definition of it, and every other entry as it was.
CollectedInto(tree, before, after) ==
    \A name \in TemplateNames :
        IF NamedIn(tree, name) # <<>>
        THEN name \in DOMAIN after /\ after[name] = LastDefinition(tree, name)
        ELSE /\ name \in DOMAIN after <=> name \in DOMAIN before
             /\ name \in DOMAIN before => after[name] = before[name]

\* The table changes by collection passes only: over the origin's tree, into
\* an empty table, when generate is called, and over an imported file's tree
\* when its import is rendered.
C24_TableHoldsLast ==
    IF status \in {"idle", "done", "failed"} /\ status' = "running"
    THEN CollectedInto(ast', EmptyTable, variables')
    ELSE IF Len(importStack') > Len(importStack)
    THEN CollectedInto(processedFiles'[importStack'[Len(importStack')]], variables,
                       variables')
    ELSE variables' = variables
\* An expansion takes the body the table holds.
C24_ExpansionTakesLast ==
    (/\ Dispatches("inline")
     /\ options.expandInline
     /\ NextNode.variableName \in DOMAIN variables)
    => /\ status' = "running"
       /\ Len(stack') = Len(stack) + 1
       /\ stack'[Len(stack')].kind = "inline"
       /\ stack'[Len(stack')].nodes = variables[NextNode.variableName].children
C24_NoErrorOnDuplicates ==
    (fs \in DuplicateFileSystems) => status \notin {"throwing", "failed"}
\* C24: a name defined several times raises no error, and a reference
\* resolves to the definition collected last: the last one of the origin in
\* source order, replaced by the last one of an imported file from the moment
\* the import is rendered, for every reference expanded afterwards.
C24_LastDefinitionWins ==
    /\ [][C24_TableHoldsLast]_vars
    /\ []C24_NoErrorOnDuplicates
    /\ [][C24_ExpansionTakesLast]_vars

\* C24 witness: the origin defines %t, refers to it, imports b.ncl, which
\* defines %t again, and refers to it once more: the first reference has
\* rendered the origin's body, the second b.ncl's.
C24_Witness ==
    /\ status = "done"
    /\ options.expandInline
    /\ ast.children = <<VariableAssignment(TName, <<Hdr>>), InlineDirective(TName),
                        Import(Rel(PB)), InlineDirective(TName)>>
    /\ FileContent(PB) = Config(<<VariableAssignment(TName, <<Hdr2>>)>>)
    /\ output = <<Line("", "add_header X 1;"), Line("", "add_header Y \"a b\";")>>

-----------------------------------------------------------------------------
(* Where the collection pass looks *)

\* The template names a tree defines anywhere: at top level, in blocks and
\* locations, and in the bodies of template definitions.
RECURSIVE AllDefinedNames(_)
AllDefinedNames(children) ==
    UNION {LET node == children[i]
           IN  CASE node.type = "variable_assignment" ->
                        {node.name} \cup AllDefinedNames(node.value.children)
                 [] node.type \in {"block", "location"} -> AllDefinedNames(node.children)
                 [] OTHER -> {}
           : i \in 1..Len(children)}

BodyOnlyNames == AllDefinedNames(ast.children) \ DefinedNames(ast.children)

C25_CollectedBeforeRendering ==
    status # "idle" =>
        /\ DefinedNames(ast.children) \subseteq DOMAIN variables
        /\ BodyOnlyNames \cap DOMAIN variables \subseteq NamesImported
C25_BodyDefinitionUndefined ==
    (/\ Dispatches("inline")
     /\ options.expandInline
     /\ NextNode.variableName \in BodyOnlyNames \ NamesImported)
    => /\ status' = "throwing"
       /\ error' = UndefinedVariable(NextNode.variableName)

-----------------------------------------------------------------------------
(* Termination of generate *)

\* Every step generate can take is taken in the end: the call runs on until
\* it returns or throws.
\* (Every step changes the call stack or the status.)
Progress == <<status, stack>>
SpecFair == Spec /\ WF_Progress(Next)

\* The template whose expansion is the k-th frame of the call stack: the one
\* the reference names at which the frame below stands.
ExpandedAt(k) == stack[k - 1].nodes[stack[k - 1].i].variableName
Expansions == {k \in 1..Len(stack) : stack[k].kind = "inline"}

\* No template is expanded within its own expansion: generateInline, which
\* reads the table and the body only, would do there what it did before, and
\* open the same expansion again.
C27_NoExpansionWithinItself ==
    \A j \in Expansions, k \in Expansions : ExpandedAt(j) = ExpandedAt(k) => j = k

\* C27: generate, once called, returns text or fails with an error, whatever
\* the tree: template bodies that refer to themselves or to each other
\* included; no expansion leads back into itself.
C27_GenerateTerminates ==
    /\ []C27_NoExpansionWithinItself
    /\ <>(status \in {"done", "failed"})

\* The files there are.
FilesPresent == {p \in AllPaths : fs[p] # NoFile}

C28_DepthBounded ==
    /\ Len(importStack) <= Cardinality(FilesPresent)
    /\ \A i \in 1..Len(importStack), j \in 1..Len(importStack) :
          importStack[i] = importStack[j] => i = j
C28_FailsWithKnownError ==
    status = "failed" =>
        error.type \in {CircularDependency(<<>>).type, ImportNotFound(<<>>).type,
                        ParseFailure(<<>>).type, UndefinedVariable("").type}
C28_Returns ==
    fs \notin RecursiveFileSystems => <>(status \in {"done", "failed"})

-----------------------------------------------------------------------------
(* The cache of parsed files *)

\* An entry is the tree of a file that exists and parses, read and parsed
\* once; the files being imported are all in the cache.
C30_CacheHoldsParsedFiles ==
    /\ \A p \in DOMAIN processedFiles :
          /\ FileContent(p) \notin {NoFile, Unparsable}
          /\ processedFiles[p] = ParsedContent(FileContent(p))
          /\ parseCount[p] = 1
    /\ \A p \in AllPaths : p \notin DOMAIN processedFiles => parseCount[p] <= 1
    /\ Range(importStack) \subseteq DOMAIN processedFiles
\* While a render runs, an entry stays as it is.
C30_EntriesKept ==
    status \in {"running", "throwing"} =>
        \A p \in DOMAIN processedFiles :
            p \in DOMAIN processedFiles' /\ processedFiles'[p] = processedFiles[p]
\* An import of a file that is being imported throws the cycle error, cached
\* as the file is, and nothing is rendered from the cache.
C30_CycleBeforeCache ==
    (/\ Dispatches("import")
     /\ ResolveImportPath(currentFile, NextNode.path) \in Range(importStack))
    => /\ ResolveImportPath(currentFile, NextNode.path) \in DOMAIN processedFiles
       /\ status' = "throwing"
       /\ error' = CircularDependency(
                       Append(importStack, ResolveImportPath(currentFile, NextNode.path)))
       /\ UNCHANGED <<stack, importStack, processedFiles, parseCount, variables>>

\* C30: within one render the cache gets an entry only for a file read and
\* parsed, keeps every entry unchanged, holds every file on the import stack,
\* and is not consulted for a file on the import stack: that import fails as
\* a cycle.
C30_CacheDiscipline ==
    /\ []C30_CacheHoldsParsedFiles
    /\ [][C30_EntriesKept]_vars
    /\ [][C30_CycleBeforeCache]_vars

\* C30 witness: b.ncl imports c.ncl, which imports b.ncl: both were parsed and
\* cached, and the import of b.ncl from c.ncl has failed as a cycle.
C30_Witness ==
    /\ status = "failed"
    /\ error = CircularDependency(<<PB, PC, PB>>)
    /\ DOMAIN processedFiles = {PB, PC}
    /\ parseCount[PB] = 1
-----------------------------------------------------------------------------
(* The parser (parser/parser.ts). Its strings are whole values: the parser   *)
(* never looks inside one. cur is this.current + 1. A method returns          *)
(* Ok(result, cursor after it) or the error it throws.                        *)

Ok(node, cur) == [ok |-> TRUE, node |-> node, cur |-> cur]

\* Parser.error: the message and the line of the current token
ParserError(message, ts, cur) == [ok |-> FALSE, message |-> message, line |-> ts[cur].line]

\* A call that throws ends its caller; one that returns hands its result on.
Then(result, Continue(_)) ==
    CHOOSE outcome \in {IF r.ok THEN Continue(r) ELSE r : r \in {result}} : TRUE

IsAtEnd(ts, cur) == ts[cur].type = "EOF"
Check(ts, cur, type) == ~IsAtEnd(ts, cur) /\ ts[cur].type = type
Advance(ts, cur) == IF IsAtEnd(ts, cur) THEN cur ELSE cur + 1

EnvironmentVariable(variableName) == [type |-> "env_var", variableName |-> variableName]
EnvironmentVariableWithDefault(variableName, defaultValue) ==
    [type |-> "env_var", variableName |-> variableName, defaultValue |-> defaultValue]

\* Parser.parseEnvironmentVariable
ParseEnvironmentVariable(ts, cur) ==
    LET afterKeyword == Advance(ts, cur)
        atName == afterKeyword + 1
        afterName == atName + 1
        atDefault == afterName + 1
    IN  IF ~Check(ts, afterKeyword, "LeftParen")
        THEN ParserError("Expected ( after %env", ts, afterKeyword)
        ELSE IF ~Check(ts, atName, "String")
        THEN ParserError("Expected string literal for environment variable name", ts, atName)
        ELSE IF Check(ts, afterName, "Comma")
        THEN IF ~Check(ts, atDefault, "String")
             THEN ParserError("Expected string literal for default value", ts, atDefault)
             ELSE IF ~Check(ts, atDefault + 1, "RightParen")
             THEN ParserError("Expected ) after environment variable", ts, atDefault + 1)
             ELSE Ok(EnvironmentVariableWithDefault(ts[atName].value, ts[atDefault].value),
                     atDefault + 2)
        ELSE IF ~Check(ts, afterName, "RightParen")
        THEN ParserError("Expected ) after environment variable", ts, afterName)
        ELSE Ok(EnvironmentVariable(ts[atName].value), afterName + 1)

NotSetMessage(variableName) ==
    "Environment variable " \o variableName \o " is not set and no default value provided"

\* Parser.resolveEnvironmentVariable; env holds the variables that are set.
ResolveEnvironmentVariableMutTruthy(env, node, ts, cur) ==
    IF node.variableName \in DOMAIN env /\ env[node.variableName] # ""
    THEN Ok(env[node.variableName], cur)
    ELSE IF "defaultValue" \in DOMAIN node THEN Ok(node.defaultValue, cur)
    ELSE ParserError(NotSetMessage(node.variableName), ts, cur)
ResolveEnvironmentVariable(env, node, ts, cur) ==
    IF node.variableName \in DOMAIN env THEN Ok(env[node.variableName], cur)
    ELSE IF "defaultValue" \in DOMAIN node THEN Ok(node.defaultValue, cur)
    ELSE ParserError(NotSetMessage(node.variableName), ts, cur)

\* parseEnvironmentVariable() then resolveEnvironmentVariable(envNode), as
\* every argument and path position does.
EnvironmentValue(ts, cur, env) ==
    Then(ParseEnvironmentVariable(ts, cur),
         LAMBDA envNode : ResolveEnvironmentVariable(env, envNode.node, ts, envNode.cur))

ArgumentTypes == {"Identifier", "String", "Number", "Variable"}

\* Parser.parseDirective: the loop over the arguments
RECURSIVE DirectiveArguments(_, _, _, _, _)
DirectiveArguments(ts, cur, env, args, directiveLine) ==
    IF Check(ts, cur, "Semicolon") \/ IsAtEnd(ts, cur) THEN Ok(args, cur)
    ELSE IF ts[cur].line > directiveLine /\ Check(ts, cur, "Identifier") THEN Ok(args, cur)
    ELSE IF ts[cur].type \in ArgumentTypes
    THEN DirectiveArguments(ts, cur + 1, env, Append(args, ts[cur].value), directiveLine)
    ELSE IF Check(ts, cur, "EnvVar")
    THEN Then(EnvironmentValue(ts, cur, env),
              LAMBDA envValue :
                  DirectiveArguments(ts, envValue.cur, env, Append(args, envValue.node),
                                     directiveLine))
    ELSE IF Check(ts, cur, "Equals")
    THEN IF Check(ts, cur + 1, "Number") \/ Check(ts, cur + 1, "Identifier")
         THEN DirectiveArguments(ts, cur + 2, env,
                                 Append(args, ts[cur].value \o ts[cur + 1].value),
                                 directiveLine)
         ELSE DirectiveArguments(ts, cur + 1, env, Append(args, ts[cur].value), directiveLine)
    ELSE IF Check(ts, cur, "LeftBrace") \/ Check(ts, cur, "RightBrace")
    THEN ParserError("Expected ; after directive", ts, cur)
    ELSE Ok(args, cur)

\* Parser.parseDirective
ParseDirective(ts, cur, env) ==
    Then(DirectiveArguments(ts, Advance(ts, cur), env, <<>>, ts[cur].line),
         LAMBDA args :
             IF ~Check(ts, args.cur, "Semicolon")
             THEN ParserError("Expected ; after directive", ts, args.cur)
             ELSE Ok(Directive(ts[cur].value, args.node), args.cur + 1))

\* Parser.parseInlineDirective
ParseInlineDirective(ts, cur) ==
    LET afterKeyword == Advance(ts, cur)
    IN  IF ~Check(ts, afterKeyword, "LeftParen")
        THEN ParserError("Expected ( after %inline", ts, afterKeyword)
        ELSE IF ~Check(ts, afterKeyword + 1, "Variable")
        THEN ParserError("Expected variable inside %inline()", ts, afterKeyword + 1)
        ELSE IF ~Check(ts, afterKeyword + 2, "RightParen")
        THEN ParserError("Expected ) after variable", ts, afterKeyword + 2)
        ELSE IF ~Check(ts, afterKeyword + 3, "Semicolon")
        THEN ParserError("Expected ; after %inline()", ts, afterKeyword + 3)
        ELSE Ok(InlineDirective(ts[afterKeyword + 1].value), afterKeyword + 4)

\* Parser.parseLocationModifier
ParseLocationModifier(value) ==
    CASE value = "=" -> ModExact
      [] value = "~" -> ModRegex
      [] value = "~*" -> ModRegexCaseInsensitive
      [] value = "^~" -> ModPrefix
      [] OTHER -> ModNone

\* Parser.hasLeftBraceAhead
RECURSIVE LeftBraceFrom(_, _)
LeftBraceFrom(ts, at) ==
    IF at > Len(ts) THEN FALSE
    ELSE IF ts[at].type = "LeftBrace" THEN TRUE
    ELSE IF ts[at].type \in {"Semicolon", "EOF"} THEN FALSE
    ELSE LeftBraceFrom(ts, at + 1)
HasLeftBraceAhead(ts, cur) == LeftBraceFrom(ts, cur + 1)

\* Parser.parseBlock: the loop over the arguments
RECURSIVE BlockArguments(_, _, _, _)
BlockArguments(ts, cur, env, args) ==
    IF Check(ts, cur, "LeftBrace") \/ IsAtEnd(ts, cur) THEN Ok(args, cur)
    ELSE IF ts[cur].type \in ArgumentTypes
    THEN BlockArguments(ts, cur + 1, env, Append(args, ts[cur].value))
    ELSE IF Check(ts, cur, "EnvVar")
    THEN Then(EnvironmentValue(ts, cur, env),
              LAMBDA envValue :
                  BlockArguments(ts, envValue.cur, env, Append(args, envValue.node)))
    ELSE Ok(args, cur)

\* Parser.parseLocation: the loop over the path list
RECURSIVE LocationPathList(_, _, _, _)
LocationPathList(ts, cur, env, paths) ==
    IF Check(ts, cur, "RightBracket") \/ IsAtEnd(ts, cur) THEN Ok(paths, cur)
    ELSE IF ~Check(ts, cur, "String") /\ ~Check(ts, cur, "EnvVar")
    THEN ParserError("Expected string or environment variable in location path list", ts, cur)
    ELSE Then(IF Check(ts, cur, "EnvVar") THEN EnvironmentValue(ts, cur, env)
              ELSE Ok(ts[cur].value, cur + 1),
              LAMBDA path :
                  IF Check(ts, path.cur, "Comma")
                  THEN LocationPathList(ts, path.cur + 1, env, Append(paths, path.node))
                  ELSE IF ~Check(ts, path.cur, "RightBracket")
                  THEN ParserError("Expected , or ] in location path list", ts, path.cur)
                  ELSE LocationPathList(ts, path.cur, env, Append(paths, path.node)))

\* parseIfBlock's loop leaving the closing parenthesis where it is
RECURSIVE IfConditionMutParenKept(_, _, _, _)
IfConditionMutParenKept(ts, cur, args, inParens) ==
    IF Check(ts, cur, "LeftBrace") \/ IsAtEnd(ts, cur) THEN Ok(args, cur)
    ELSE IF inParens /\ Check(ts, cur, "RightParen") THEN Ok(args, cur)
    ELSE IfConditionMutParenKept(ts, cur + 1, Append(args, ts[cur].value), inParens)

\* Parser.parseIfBlock: the loop over the condition
RECURSIVE IfCondition(_, _, _, _)
IfCondition(ts, cur, args, inParens) ==
    IF Check(ts, cur, "LeftBrace") \/ IsAtEnd(ts, cur) THEN Ok(args, cur)
    ELSE IF inParens /\ Check(ts, cur, "RightParen") THEN Ok(args, cur + 1)
    ELSE IfCondition(ts, cur + 1, Append(args, ts[cur].value), inParens)

RECURSIVE ParseStatement(_, _, _)
RECURSIVE Statements(_, _, _, _, _)

\* Parser.parseBlockChildren
ParseBlockChildren(ts, cur, env) ==
    IF ~Check(ts, cur, "LeftBrace") THEN ParserError("Expected {", ts, cur)
    ELSE Then(Statements(ts, cur + 1, env, <<>>, TRUE),
              LAMBDA children :
                  IF ~Check(ts, children.cur, "RightBrace")
                  THEN ParserError("Expected }", ts, children.cur)
                  ELSE Ok(children.node, children.cur + 1))

\* Parser.parseVariableAssignment, with parseBlockBody("")
ParseVariableAssignment(ts, cur, env) ==
    LET afterVariable == Advance(ts, cur)
    IN  IF ~Check(ts, afterVariable, "Equals")
        THEN ParserError("Expected = after variable", ts, afterVariable)
        ELSE IF ~Check(ts, afterVariable + 1, "LeftBrace")
        THEN ParserError("Expected { after variable assignment", ts, afterVariable + 1)
        ELSE Then(ParseBlockChildren(ts, afterVariable + 1, env),
                  LAMBDA children :
                      IF ~Check(ts, children.cur, "Semicolon")
                      THEN ParserError("Expected ; after variable assignment", ts,
                                       children.cur)
                      ELSE Ok(VariableAssignment(ts[cur].value, children.node),
                              children.cur + 1))

\* Parser.parseLocation: the block body after the paths
LocationBody(ts, cur, env, modifier, paths) ==
    IF ~Check(ts, cur, "LeftBrace") THEN ParserError("Expected { after location", ts, cur)
    ELSE Then(ParseBlockChildren(ts, cur, env),
              LAMBDA children :
                  Ok(Location(modifier, paths, children.node), children.cur))

\* Parser.parseLocation
ParseLocation(ts, cur, env) ==
    LET afterKeyword == Advance(ts, cur)
    IN  IF Check(ts, afterKeyword, "In")
        THEN IF ~Check(ts, afterKeyword + 1, "LeftBracket")
             THEN ParserError("Expected [ after location in", ts, afterKeyword + 1)
             ELSE Then(LocationPathList(ts, afterKeyword + 2, env, <<>>),
                       LAMBDA paths :
                           IF ~Check(ts, paths.cur, "RightBracket")
                           THEN ParserError("Expected ] after location paths", ts, paths.cur)
                           ELSE LocationBody(ts, paths.cur + 1, env, ModNone, paths.node))
        ELSE LET modifier == IF Check(ts, afterKeyword, "LocationModifier")
                             THEN ParseLocationModifier(ts[afterKeyword].value)
                             ELSE IF Check(ts, afterKeyword, "Equals") THEN ModExact
                             ELSE ModNone
                 atPath == IF Check(ts, afterKeyword, "LocationModifier")
                              \/ Check(ts, afterKeyword, "Equals")
                           THEN afterKeyword + 1 ELSE afterKeyword
             IN  IF /\ ~Check(ts, atPath, "Identifier")
                    /\ ~Check(ts, atPath, "String")
                    /\ ~Check(ts, atPath, "EnvVar")
                 THEN ParserError("Expected path after location", ts, atPath)
                 ELSE Then(IF Check(ts, atPath, "EnvVar")
                           THEN EnvironmentValue(ts, atPath, env)
                           ELSE Ok(ts[atPath].value, atPath + 1),
                           LAMBDA path :
                               LocationBody(ts, path.cur, env, modifier, <<path.node>>))

\* Parser.parseBlock
ParseBlock(ts, cur, env) ==
    Then(BlockArguments(ts, Advance(ts, cur), env, <<>>),
         LAMBDA args :
             IF ~Check(ts, args.cur, "LeftBrace")
             THEN ParserError("Expected { after block name", ts, args.cur)
             ELSE Then(ParseBlockChildren(ts, args.cur, env),
                       LAMBDA children :
                           Ok(Block(ts[cur].value, args.node, children.node),
                              children.cur)))

\* Parser.parseIfBlock
ParseIfBlock(ts, cur, env) ==
    LET afterKeyword == Advance(ts, cur)
        inParens == Check(ts, afterKeyword, "LeftParen")
    IN  Then(IfCondition(ts, IF inParens THEN afterKeyword + 1 ELSE afterKeyword,
                         <<>>, inParens),
             LAMBDA args :
                 Then(ParseBlockChildren(ts, args.cur, env),
                      LAMBDA children :
                          Ok(Block("if", args.node, children.node), children.cur)))

\* Parser.parseStatement
ParseStatement(ts, cur, env) ==
    IF Check(ts, cur, "Variable")
    THEN IF cur + 1 <= Len(ts) /\ ts[cur + 1].type = "Equals"
         THEN ParseVariableAssignment(ts, cur, env)
         ELSE ParseDirective(ts, cur, env)
    ELSE IF Check(ts, cur, "Inline") THEN ParseInlineDirective(ts, cur)
    ELSE IF Check(ts, cur, "EnvVar") THEN ParseEnvironmentVariable(ts, cur)
    ELSE IF Check(ts, cur, "Location") THEN ParseLocation(ts, cur, env)
    ELSE IF Check(ts, cur, "Identifier")
    THEN IF ts[cur].value = "if" THEN ParseIfBlock(ts, cur, env)
         ELSE IF HasLeftBraceAhead(ts, cur) THEN ParseBlock(ts, cur, env)
         ELSE ParseDirective(ts, cur, env)
    ELSE ParserError("Unexpected token: " \o ts[cur].value, ts, cur)

\* The statement loops left after their first statement
StatementsMutStopsEarly(ts, cur, env, children, inBlock) ==
    IF IsAtEnd(ts, cur) \/ (inBlock /\ Check(ts, cur, "RightBrace")) THEN Ok(children, cur)
    ELSE Then(ParseStatement(ts, cur, env),
              LAMBDA node : Ok(Append(children, node.node), node.cur))

\* The statement loops of parse() and of parseBlockChildren (inBlock): until
\* the end of the tokens or, in a block, the closing brace.
Statements(ts, cur, env, children, inBlock) ==
    IF IsAtEnd(ts, cur) \/ (inBlock /\ Check(ts, cur, "RightBrace")) THEN Ok(children, cur)
    ELSE Then(ParseStatement(ts, cur, env),
              LAMBDA node :
                  Statements(ts, node.cur, env, Append(children, node.node), inBlock))

\* Parser.parse
ParseTokens(ts, env) ==
    Then(Statements(ts, 1, env, <<>>, FALSE),
         LAMBDA children : Ok(Config(children.node), children.cur))

-----------------------------------------------------------------------------
(* Sources with environment references, as the tokenizer hands them over *)

Tk(type, value) == Token(type, value, 1)
Identifier(value) == Tk("Identifier", value)
StringLiteral(value) == Tk("String", value)
LeftBrace == Tk("LeftBrace", "{")
RightBrace == Tk("RightBrace", "}")
LeftBracket == Tk("LeftBracket", "[")
RightBracket == Tk("RightBracket", "]")
LeftParen == Tk("LeftParen", "(")
RightParen == Tk("RightParen", ")")
Semicolon == Tk("Semicolon", ";")
Comma == Tk("Comma", ",")
Equals == Tk("Equals", "=")
LocationKeyword == Tk("Location", "location")

\* %env("NAME") and %env("NAME", "default")
ReferenceTokens(ref) ==
    <<Tk("EnvVar", "%env"), LeftParen, StringLiteral(ref.variableName)>>
    \o (IF "defaultValue" \in DOMAIN ref
        THEN <<Comma, StringLiteral(ref.defaultValue)>> ELSE <<>>)
    \o <<RightParen>>

EnvNames == {"A", "B"}
EnvValues == {"", "x"}
DefaultValues == {"", "d"}
Environments == UNION {[names -> EnvValues] : names \in SUBSET EnvNames}
References ==
    {EnvironmentVariable(n) : n \in EnvNames}
    \cup {EnvironmentVariableWithDefault(n, d) : n \in EnvNames, d \in DefaultValues}

\* Shapes in which a reference stands where the parser resolves one.
OneReferenceShapes ==
    {"directive", "directive_middle", "two_lines", "block", "nested", "template",
     "location", "location_regex", "location_exact", "location_in_first",
     "location_in_last"}
TwoReferenceShapes == {"directive_two", "block_mixed", "location_in_two"}
ResolvingShapes == OneReferenceShapes \cup TwoReferenceShapes
\* Shapes in which it stands elsewhere, or that hold none.
OtherShapes ==
    {"if_parens", "if_bare", "statement", "inline", "statement_first", "statement_last",
     "statement_in_block", "template_inline", "location_in_empty", "if_simple",
     "if_nested", "if_plain", "if_paren_then_more", "unclosed_block", "stray_brace",
     "if_unclosed", "location_in_unclosed", "directive_unended"}
Shapes == ResolvingShapes \cup OtherShapes

SecondLine(ts) == [i \in DOMAIN ts |-> [ts[i] EXCEPT !.line = 2]]

ShapeTokens(shape, r1, r2) ==
    CASE shape = "directive" -> <<Identifier("listen")>> \o ReferenceTokens(r1) \o <<Semicolon>>
      [] shape = "directive_middle" ->
            <<Identifier("access_log"), Identifier("/var/log")>> \o ReferenceTokens(r1)
            \o <<Identifier("main"), Semicolon>>
      [] shape = "directive_two" ->
            <<Identifier("proxy_set_header")>> \o ReferenceTokens(r1) \o ReferenceTokens(r2)
            \o <<Semicolon>>
      [] shape = "two_lines" ->
            <<Identifier("listen")>> \o ReferenceTokens(r1) \o <<Semicolon>>
            \o SecondLine(<<Identifier("root"), Identifier("/x"), Semicolon>>)
      [] shape = "block" ->
            <<Identifier("upstream")>> \o ReferenceTokens(r1) \o <<LeftBrace, RightBrace>>
      [] shape = "block_mixed" ->
            <<Identifier("server"), Identifier("a")>> \o ReferenceTokens(r1)
            \o <<LeftBrace, Identifier("listen")>> \o ReferenceTokens(r2)
            \o <<Semicolon, RightBrace>>
      [] shape = "nested" ->
            <<Identifier("server"), LeftBrace, Identifier("listen")>> \o ReferenceTokens(r1)
            \o <<Semicolon, RightBrace>>
      [] shape = "template" ->
            <<Tk("Variable", "%t"), Equals, LeftBrace, Identifier("listen")>>
            \o ReferenceTokens(r1) \o <<Semicolon, RightBrace, Semicolon>>
      [] shape = "location" ->
            <<LocationKeyword>> \o ReferenceTokens(r1) \o <<LeftBrace, RightBrace>>
      [] shape = "location_regex" ->
            <<LocationKeyword, Tk("LocationModifier", "~")>> \o ReferenceTokens(r1)
            \o <<LeftBrace, RightBrace>>
      [] shape = "location_exact" ->
            <<LocationKeyword, Equals>> \o ReferenceTokens(r1) \o <<LeftBrace, RightBrace>>
      [] shape = "location_in_first" ->
            <<LocationKeyword, Tk("In", "in"), LeftBracket>> \o ReferenceTokens(r1)
            \o <<Comma, StringLiteral("/s"), RightBracket, LeftBrace, RightBrace>>
      [] shape = "location_in_last" ->
            <<LocationKeyword, Tk("In", "in"), LeftBracket, StringLiteral("/s"), Comma>>
            \o ReferenceTokens(r1) \o <<RightBracket, LeftBrace, RightBrace>>
      [] shape = "location_in_two" ->
            <<LocationKeyword, Tk("In", "in"), LeftBracket>> \o ReferenceTokens(r1)
            \o <<Comma>> \o ReferenceTokens(r2)
            \o <<RightBracket, LeftBrace, Identifier("return"), Tk("Number", "200"),
                 Semicolon, RightBrace>>
      [] shape = "if_parens" ->
            <<Identifier("if"), LeftParen>> \o ReferenceTokens(r1)
            \o <<RightParen, LeftBrace, RightBrace>>
      [] shape = "if_bare" ->
            <<Identifier("if")>> \o ReferenceTokens(r1) \o <<LeftBrace, RightBrace>>
      [] shape = "statement" -> ReferenceTokens(r1) \o <<Semicolon>>
      [] shape = "statement_first" ->
            ReferenceTokens(r1) \o <<Identifier("listen"), Tk("Number", "80"), Semicolon>>
      [] shape = "statement_last" ->
            <<Identifier("listen"), Tk("Number", "80"), Semicolon>> \o ReferenceTokens(r1)
      [] shape = "statement_in_block" ->
            <<Identifier("server"), LeftBrace>> \o ReferenceTokens(r1) \o <<RightBrace>>
      [] shape = "template_inline" ->
            <<Tk("Variable", "%t"), Equals, LeftBrace, Identifier("listen")>>
            \o ReferenceTokens(r1)
            \o <<Semicolon, RightBrace, Semicolon,
                 Tk("Inline", "%inline"), LeftParen, Tk("Variable", "%t"), RightParen,
                 Semicolon>>
      [] shape = "inline" ->
            <<Tk("Inline", "%inline"), LeftParen, Tk("Variable", "%t"), RightParen, Semicolon>>
      [] shape = "if_simple" ->
            <<Identifier("if"), LeftParen, Tk("Variable", "$a"), Equals, Identifier("b"),
              RightParen, LeftBrace, Identifier("return"), Tk("Number", "200"), Semicolon,
              RightBrace>>
      [] shape = "if_nested" ->
            <<Identifier("if"), LeftParen, Tk("Variable", "$a"), Identifier("~"),
              LeftParen, Identifier("x"), RightParen, RightParen, LeftBrace,
              Identifier("return"), Tk("Number", "200"), Semicolon, RightBrace>>
      [] shape = "if_plain" ->
            <<Identifier("if"), Tk("Variable", "$a"), LeftBrace, Identifier("return"),
              Tk("Number", "200"), Semicolon, RightBrace>>
      [] shape = "if_paren_then_more" ->
            <<Identifier("if"), LeftParen, Tk("Variable", "$a"), RightParen,
              Identifier("b"), LeftBrace, RightBrace>>
      [] shape = "unclosed_block" ->
            <<Identifier("server"), LeftBrace, Identifier("listen"), Tk("Number", "80"),
              Semicolon>>
      [] shape = "stray_brace" ->
            <<Identifier("listen"), Tk("Number", "80"), Semicolon, RightBrace>>
      [] shape = "if_unclosed" -> <<Identifier("if"), LeftParen, Tk("Variable", "$a")>>
      [] shape = "location_in_unclosed" ->
            <<LocationKeyword, Tk("In", "in"), LeftBracket, StringLiteral("/s"), Comma>>
      [] shape = "directive_unended" -> <<Identifier("listen"), Tk("Number", "80")>>
      [] shape = "location_in_empty" ->
            <<LocationKeyword, Tk("In", "in"), LeftBracket, RightBracket, LeftBrace,
              Identifier("return"), Tk("Number", "200"), Semicolon, RightBrace>>

\* The tokenizer ends every sequence with the end-of-file token, on the last
\* line.
SourceTokens(shape, r1, r2) ==
    LET ts == ShapeTokens(shape, r1, r2)
    IN  Append(ts, [EndOfFile EXCEPT !.line = ts[Len(ts)].line])

Sources == {SourceTokens(shape, r1, r2) : shape \in Shapes, r1 \in References, r2 \in References}

InitParse ==
    /\ fs = [p \in AllPaths |-> NoFile]
    /\ GeneratorIdle
    /\ TokenizerIdle
    /\ tokens \in Sources
    /\ environment \in Environments
    /\ parseStatus = "ready"
    /\ parseResult = Config(<<>>)
    /\ parseError = NoError

\* parse(input) on the tokens of the input
Parse ==
    /\ parseStatus = "ready"
    /\ LET result == ParseTokens(tokens, environment)
       IN  IF result.ok
           THEN /\ parseStatus' = "parsed"
                /\ parseResult' = result.node
                /\ UNCHANGED parseError
           ELSE /\ parseStatus' = "failed"
                /\ parseError' = result
                /\ UNCHANGED parseResult
    /\ UNCHANGED <<tokens, environment, generatorVars, tokenizerVars>>

\* process.env.NAME = value, before the next parse
SetEnvironment(name, value) ==
    /\ parseStatus # "ready"
    /\ IF name \in DOMAIN environment THEN environment[name] # value ELSE TRUE
    /\ environment' = [n \in DOMAIN environment \cup {name} |->
                          IF n = name THEN value ELSE environment[n]]
    /\ parseStatus' = "ready"
    /\ parseResult' = Config(<<>>)
    /\ parseError' = NoError
    /\ UNCHANGED <<tokens, generatorVars, tokenizerVars>>

\* delete process.env.NAME, before the next parse
DeleteEnvironment(name) ==
    /\ parseStatus # "ready"
    /\ name \in DOMAIN environment
    /\ environment' = [n \in DOMAIN environment \ {name} |-> environment[n]]
    /\ parseStatus' = "ready"
    /\ parseResult' = Config(<<>>)
    /\ parseError' = NoError
    /\ UNCHANGED <<tokens, generatorVars, tokenizerVars>>

NextParse ==
    \/ Parse
    \/ \E name \in EnvNames, value \in EnvValues : SetEnvironment(name, value)
    \/ \E name \in EnvNames : DeleteEnvironment(name)

SpecParse == InitParse /\ [][NextParse]_vars

-----------------------------------------------------------------------------
(* Environment references *)

IsSet(ref) == ref.variableName \in DOMAIN environment
HasDefault(ref) == "defaultValue" \in DOMAIN ref

\* What a reference stands for: the value when the variable is set, else the
\* default.
Substituted(ref) == IF IsSet(ref) THEN environment[ref.variableName] ELSE ref.defaultValue

\* The statements a source of a shape must parse to, v1 and v2 standing where
\* its references stood.
ExpectedStatements(shape, v1, v2) ==
    CASE shape = "directive" -> <<Directive("listen", <<v1>>)>>
      [] shape = "directive_middle" -> <<Directive("access_log", <<"/var/log", v1, "main">>)>>
      [] shape = "directive_two" -> <<Directive("proxy_set_header", <<v1, v2>>)>>
      [] shape = "two_lines" ->
            <<Directive("listen", <<v1>>), Directive("root", <<"/x">>)>>
      [] shape = "block" -> <<Block("upstream", <<v1>>, <<>>)>>
      [] shape = "block_mixed" ->
            <<Block("server", <<"a", v1>>, <<Directive("listen", <<v2>>)>>)>>
      [] shape = "nested" -> <<Block("server", <<>>, <<Directive("listen", <<v1>>)>>)>>
      [] shape = "template" -> <<VariableAssignment("%t", <<Directive("listen", <<v1>>)>>)>>
      [] shape = "location" -> <<Location(ModNone, <<v1>>, <<>>)>>
      [] shape = "location_regex" -> <<Location(ModRegex, <<v1>>, <<>>)>>
      [] shape = "location_exact" -> <<Location(ModExact, <<v1>>, <<>>)>>
      [] shape = "location_in_first" -> <<Location(ModNone, <<v1, "/s">>, <<>>)>>
      [] shape = "location_in_last" -> <<Location(ModNone, <<"/s", v1>>, <<>>)>>
      [] shape = "location_in_two" ->
            <<Location(ModNone, <<v1, v2>>, <<Directive("return", <<"200">>)>>)>>

\* The references of a source, in the order written.
ReferencesOf(shape, r1, r2) == IF shape \in TwoReferenceShapes THEN <<r1, r2>> ELSE <<r1>>

\* The first reference that names an unset variable and gives no default.
Unresolvable(refs) == {i \in 1..Len(refs) : ~IsSet(refs[i]) /\ ~HasDefault(refs[i])}
FirstUnresolvable(refs) ==
    refs[CHOOSE i \in Unresolvable(refs) : \A j \in Unresolvable(refs) : i <= j]

\* C6: a parse of a source whose references stand in directive arguments,
\* block arguments, a location path or a path list returns the tree with each
\* reference replaced by the variable's value when it is set (default or not)
\* and by the default when it is unset; when a reference names an unset
\* variable and has no default, parse throws 'Environment variable <NAME> is
\* not set and no default value provided' for the first such reference.
C6_EnvironmentReferenceResolved ==
    parseStatus \in {"parsed", "failed"} =>
        \A shape \in ResolvingShapes, r1 \in References, r2 \in References :
            tokens = SourceTokens(shape, r1, r2) =>
                LET refs == ReferencesOf(shape, r1, r2)
                IN  IF Unresolvable(refs) = {}
                    THEN /\ parseStatus = "parsed"
                         /\ parseResult =
                                Config(ExpectedStatements(
                                    shape, Substituted(r1),
                                    IF Len(refs) = 2 THEN Substituted(r2) ELSE ""))
                    ELSE /\ parseStatus = "failed"
                         /\ parseError.message =
                                NotSetMessage(FirstUnresolvable(refs).variableName)

\* C6 witness: 'location in [%env("A", "d"), %env("B", "d")] { return 200; }'
\* was parsed with A set to the empty string and B unset: the first path is
\* A's value, the second the default.
C6_Witness ==
    /\ parseStatus = "parsed"
    /\ tokens = SourceTokens("location_in_two",
                             EnvironmentVariableWithDefault("A", "d"),
                             EnvironmentVariableWithDefault("B", "d"))
    /\ environment = [n \in {"A"} |-> ""]
    /\ parseResult =
           Config(<<Location(ModNone, <<"", "d">>, <<Directive("return", <<"200">>)>>)>>)

-----------------------------------------------------------------------------
(* The tokenizer (parser/tokenizer.ts), one action per turn of tokenize()'s   *)
(* loop. The text is a sequence of characters, position is the 1-based index  *)
(* of the next one. A token's value is the string of its characters.          *)

\* A string as the sequence of its characters.
Characters(text) == [i \in 1..Len(text) |-> SubSeq(text, i, i)]

Digits == {"0", "1", "2", "3", "4", "5", "6", "7", "8", "9"}
Letters ==
    {"a", "b", "c", "d", "e", "f", "g", "h", "i", "j", "k", "l", "m", "n", "o", "p", "q",
     "r", "s", "t", "u", "v", "w", "x", "y", "z", "_"}

\* isIdentifierPart: /[a-zA-Z0-9_]/
IsIdentifierPart(char) == char \in Letters \cup Digits

\* The characters that end readIdentifier's scan.
IdentifierEnd == Whitespace \cup {"{", "}", "[", "]", ";", ",", "=", "\"", "'", "(", ")"}

Cursor(at, lineAt, columnAt) == [position |-> at, line |-> lineAt, column |-> columnAt]

\* A loop's state at the top of a turn, then the turn.
With(state, Turn(_)) == CHOOSE after \in {Turn(now) : now \in {state}} : TRUE

\* skipWhitespaceAndComments: a comment moves the position, not the column.
RECURSIVE SkipWhitespaceAndCommentsMutNoComments(_, _)
SkipWhitespaceAndCommentsMutNoComments(text, cursor) ==
    With(cursor, LAMBDA now :
        IF now.position > Len(text) THEN now
        ELSE IF text[now.position] \in Whitespace
        THEN SkipWhitespaceAndCommentsMutNoComments(
                 text,
                 IF text[now.position] = "\n"
                 THEN Cursor(now.position + 1, now.line + 1, 1)
                 ELSE Cursor(now.position + 1, now.line, now.column + 1))
        ELSE now)
RECURSIVE CommentEnd(_, _)
CommentEnd(text, at) ==
    IF at > Len(text) \/ text[at] = "\n" THEN at ELSE CommentEnd(text, at + 1)

RECURSIVE SkipWhitespaceAndComments(_, _)
SkipWhitespaceAndComments(text, cursor) ==
    With(cursor, LAMBDA now :
        IF now.position > Len(text) THEN now
        ELSE IF text[now.position] \in Whitespace
        THEN SkipWhitespaceAndComments(
                 text,
                 IF text[now.position] = "\n"
                 THEN Cursor(now.position + 1, now.line + 1, 1)
                 ELSE Cursor(now.position + 1, now.line, now.column + 1))
        ELSE IF text[now.position] = "#"
        THEN SkipWhitespaceAndComments(
                 text, Cursor(CommentEnd(text, now.position), now.line, now.column))
        ELSE now)

\* What a read returns: the token and the cursor after it, or the Error thrown
\* and the cursor where it was thrown.
Read(token, cursor) == [ok |-> TRUE, token |-> token, cursor |-> cursor]
Thrown(thrown, cursor) == [ok |-> FALSE, error |-> thrown, cursor |-> cursor]

\* `Unterminated string at line ${this.line}, column ${startColumn}`
UnterminatedString(lineAt, columnAt) ==
    [ok |-> FALSE, message |-> "Unterminated string", line |-> lineAt, column |-> columnAt]

SingleCharacterType(char) ==
    CASE char = "{" -> "LeftBrace"
      [] char = "}" -> "RightBrace"
      [] char = "[" -> "LeftBracket"
      [] char = "]" -> "RightBracket"
      [] char = ";" -> "Semicolon"
      [] char = "," -> "Comma"
      [] char = "=" -> "Equals"
      [] char = "(" -> "LeftParen"
      [] char = ")" -> "RightParen"
SingleCharacters == {"{", "}", "[", "]", ";", ",", "=", "(", ")"}

\* The first index from `at` on where a scan stops: the end of the text or a
\* character of `stops`.
RECURSIVE ScanUntil(_, _, _)
ScanUntil(text, at, stops) ==
    IF at > Len(text) \/ text[at] \in stops THEN at ELSE ScanUntil(text, at + 1, stops)

\* The first index from `at` on that holds no character of `parts`.
RECURSIVE ScanWhile(_, _, _)
ScanWhile(text, at, parts) ==
    IF at > Len(text) \/ text[at] \notin parts THEN at ELSE ScanWhile(text, at + 1, parts)

Across(text, cursor, end) ==
    Cursor(end, cursor.line, cursor.column + (end - cursor.position))

\* readString's loop: the value collected and the cursor where it stops.
RECURSIVE StringBody(_, _, _, _)
StringBody(text, quote, cursor, value) ==
    With([value |-> value, cursor |-> cursor], LAMBDA now :
        IF now.cursor.position > Len(text) \/ text[now.cursor.position] = quote
        THEN now
        ELSE LET escaped == /\ text[now.cursor.position] = "\\"
                            /\ now.cursor.position + 1 <= Len(text)
                 at == IF escaped THEN now.cursor.position + 1 ELSE now.cursor.position
                 columnAt == IF escaped THEN now.cursor.column + 1 ELSE now.cursor.column
             IN  StringBody(text, quote,
                            IF text[at] = "\n" THEN Cursor(at + 1, now.cursor.line + 1, 1)
                            ELSE Cursor(at + 1, now.cursor.line, columnAt + 1),
                            now.value \o text[at]))

\* readString: the error carries the line the scan has reached and the column
\* of the opening quote; so does the token.
ReadString(text, cursor) ==
    With(StringBody(text, text[cursor.position],
                    Cursor(cursor.position + 1, cursor.line, cursor.column + 1), ""),
         LAMBDA body :
            IF body.cursor.position > Len(text)
            THEN Thrown(UnterminatedString(body.cursor.line, cursor.column), body.cursor)
            ELSE Read(Token("String", body.value, body.cursor.line),
                      Cursor(body.cursor.position + 1, body.cursor.line,
                             body.cursor.column + 1)))

\* readIdentifier
ReadIdentifier(text, cursor) ==
    LET end == ScanUntil(text, cursor.position, IdentifierEnd)
        value == Str(SubSeq(text, cursor.position, end - 1))
    IN  Read(Token(IF value = "location" THEN "Location"
                   ELSE IF value = "in" THEN "In" ELSE "Identifier",
                   value, cursor.line),
             Across(text, cursor, end))

\* readNumber
ReadNumber(text, cursor) ==
    LET end == ScanWhile(text, cursor.position, Digits)
    IN  Read(Token("Number", Str(SubSeq(text, cursor.position, end - 1)), cursor.line),
             Across(text, cursor, end))

\* readVariable
ReadVariable(text, cursor) ==
    LET end == ScanWhile(text, cursor.position + 1, Letters \cup Digits)
    IN  Read(Token("Variable", Str(SubSeq(text, cursor.position, end - 1)), cursor.line),
             Across(text, cursor, end))

\* readInline
ReadInline(text, cursor) ==
    IF /\ cursor.position + 6 <= Len(text)
       /\ SubSeq(text, cursor.position, cursor.position + 6)
              = <<"@", "i", "n", "l", "i", "n", "e">>
    THEN Read(Token("Inline", "@inline", cursor.line), Across(text, cursor, cursor.position + 7))
    ELSE ReadIdentifier(text, cursor)

\* isLocationModifier
IsLocationModifier(text, at) ==
    \/ text[at] = "~"
    \/ text[at] = "^" /\ at + 1 <= Len(text) /\ text[at + 1] = "~"

\* readLocationModifier
ReadLocationModifier(text, cursor) ==
    LET at == cursor.position
        value == IF text[at] = "~"
                 THEN IF at + 1 <= Len(text) /\ text[at + 1] = "*" THEN "~*" ELSE "~"
                 ELSE "^~"
    IN  Read(Token("LocationModifier", value, cursor.line),
             Across(text, cursor, at + Len(value)))

\* readToken
ReadTokenAt(text, cursor) ==
    LET char == text[cursor.position]
    IN  IF char \in SingleCharacters
        THEN Read(Token(SingleCharacterType(char), char, cursor.line),
                  Across(text, cursor, cursor.position + 1))
        ELSE IF char \in {"\"", "'"} THEN ReadString(text, cursor)
        ELSE IF char = "$" THEN ReadVariable(text, cursor)
        ELSE IF char = "@" THEN ReadInline(text, cursor)
        ELSE IF IsLocationModifier(text, cursor.position) THEN ReadLocationModifier(text, cursor)
        ELSE IF char \in Digits THEN ReadNumber(text, cursor)
        ELSE ReadIdentifier(text, cursor)

Here == Cursor(position, currentLine, currentColumn)
AfterSkip == SkipWhitespaceAndComments(input, Here)

MoveTo(cursor) ==
    /\ position' = cursor.position
    /\ currentLine' = cursor.line
    /\ currentColumn' = cursor.column

\* One turn of tokenize()'s loop that finds a character after the whitespace
\* and comments: readToken, the token pushed or the error thrown.
ReadToken ==
    /\ parseStatus = "scanning"
    /\ AfterSkip.position <= Len(input)
    /\ LET read == CHOOSE r \in {ReadTokenAt(input, AfterSkip)} : TRUE
       IN  IF read.ok
           THEN /\ tokens' = Append(tokens, read.token)
                /\ MoveTo(read.cursor)
                /\ UNCHANGED <<parseStatus, parseError>>
           ELSE /\ parseStatus' = "failed"
                /\ parseError' = read.error
                /\ MoveTo(read.cursor)
                /\ UNCHANGED tokens
    /\ UNCHANGED <<environment, parseResult, input, previous, generatorVars>>

\* tokenize() leaves its loop: the end-of-file token is pushed and the tokens
\* are returned, to parse(input) for its Parser.
EndOfInput ==
    /\ parseStatus = "scanning"
    /\ AfterSkip.position > Len(input)
    /\ tokens' = Append(tokens, Token("EOF", "", AfterSkip.line))
    /\ MoveTo(AfterSkip)
    /\ parseStatus' = "ready"
    /\ UNCHANGED <<environment, parseResult, parseError, input, previous, generatorVars>>

-----------------------------------------------------------------------------
(* Text in, text out: parse(input) and generate(ast, options), and the text   *)
(* generated handed to parse again.                                           *)

MaxChars == 3
MaxRounds == 1

\* Every text of up to MaxChars characters over these.
Alphabet == {"a", "1", " ", "\n", "\"", "\\", "#", ";", "~", "!"}
RawTexts == SeqsUpTo(Alphabet, MaxChars)

\* Directives and blocks without special syntax, each with the statements it
\* is written to mean: names, arguments and nesting as nginx reads them.
Written(name, args) == Directive(name, [i \in 1..Len(args) |-> Characters(args[i])])
WrittenBlock(name, args, children) ==
    Block(name, [i \in 1..Len(args) |-> Characters(args[i])], children)
PlainSources ==
    {[text |-> "worker_processes auto;",
      tree |-> <<Written("worker_processes", <<"auto">>)>>],
     [text |-> "listen 80;",
      tree |-> <<Written("listen", <<"80">>)>>],
     [text |-> "expires 30d;",
      tree |-> <<Written("expires", <<"30d">>)>>],
     [text |-> "server 127.0.0.1:3000;",
      tree |-> <<Written("server", <<"127.0.0.1:3000">>)>>],
     [text |-> "limit_req zone=api;",
      tree |-> <<Written("limit_req", <<"zone=api">>)>>],
     [text |-> "index index.html index.htm;",
      tree |-> <<Written("index", <<"index.html", "index.htm">>)>>],
     [text |-> "http {\n  server {\n    listen 80;\n  }\n}",
      tree |-> <<WrittenBlock("http", <<>>,
                    <<WrittenBlock("server", <<>>, <<Written("listen", <<"80">>)>>)>>)>>],
     [text |-> "events{worker_connections 1024;}",
      tree |-> <<WrittenBlock("events", <<>>,
                    <<Written("worker_connections", <<"1024">>)>>)>>],
     [text |-> "gzip   on;\n\n# types\ngzip_types   text/plain application/json; # two",
      tree |-> <<Written("gzip", <<"on">>),
                 Written("gzip_types", <<"text/plain", "application/json">>)>>],
     [text |-> "server_name example.com!; # name\n",
      tree |-> <<Written("server_name", <<"example.com!">>)>>],
     [text |-> "upstream backend {\n\tserver unix:/tmp/a.sock;\n}\nsendfile on;",
      tree |-> <<WrittenBlock("upstream", <<"backend">>,
                    <<Written("server", <<"unix:/tmp/a.sock">>)>>),
                 Written("sendfile", <<"on">>)>>]}

\* Arguments written as quoted strings, and locations.
QuotedTexts ==
    {"d \"\";",
     "d \"\" x;",
     "d \"a b\";",
     "d 'x y' z;",
     "d \"a\\\\b\";",
     "d \"a\\\"b\";",
     "d \"a b\\\"c\";",
     "d \"'a'\";",
     "d 'a\"b';",
     "add_header X \"1; mode=block\";",
     "location /a { return 200; }",
     "location = /e { }",
     "location ~* \"/i j\" { return 200; }",
     "location in [\"/a\", \"/b c\"] { return 200; }"}

\* A directive without its semicolon, the next statement on a later line.
MissingSemicolonTexts ==
    {"worker_processes auto\nworker_connections 1024;",
     "listen 80\nserver_name x;",
     "listen 80\n\nserver {\n}",
     "listen 80\nhttp {\n  gzip on;\n}",
     "gzip on\n# c\nevents { }"}

Texts ==
    RawTexts
    \cup {Characters(source.text) : source \in PlainSources}
    \cup {Characters(text) : text \in QuotedTexts \cup MissingSemicolonTexts}

\* The tree parse() returned as generate() reads it: the same nodes, each
\* argument and path a string whose characters quoteIfNeeded and
\* generateSingleLocation inspect.
RECURSIVE AsRead(_)
AsRead(node) ==
    LET children == IF "children" \in DOMAIN node
                    THEN [i \in 1..Len(node.children) |-> AsRead(node.children[i])]
                    ELSE <<>>
    IN  CASE node.type = "config" -> Config(children)
          [] node.type = "directive" ->
                Directive(node.name, [i \in 1..Len(node.args) |-> Characters(node.args[i])])
          [] node.type = "block" ->
                Block(node.name, [i \in 1..Len(node.args) |-> Characters(node.args[i])],
                      children)
          [] node.type = "location" ->
                Location(node.modifier,
                         [i \in 1..Len(node.paths) |-> Characters(node.paths[i])], children)
          [] node.type = "variable_assignment" ->
                [node EXCEPT !.value = AsRead(node.value)]
          [] OTHER -> node

\* lines.join("\n") as one string
RECURSIVE TextOf(_)
TextOf(lines) ==
    IF lines = <<>> THEN ""
    ELSE IF Len(lines) = 1 THEN lines[1].indent \o lines[1].text
    ELSE lines[1].indent \o lines[1].text \o "\n" \o TextOf(Tail(lines))

InitText ==
    /\ fs = [p \in AllPaths |-> NoFile]
    /\ GeneratorIdle
    /\ TokenizerIdle
    /\ tokens = <<>>
    /\ environment = NoEnvironment
    /\ parseStatus = "idle"
    /\ parseResult = Config(<<>>)
    /\ parseError = NoError

\* parse(input): tokenize(input) up to its loop
ParseInput(text) ==
    /\ parseStatus = "idle"
    /\ input' = text
    /\ parseStatus' = "scanning"
    /\ UNCHANGED <<position, currentLine, currentColumn, previous, tokens, environment,
                   parseResult, parseError, generatorVars>>

\* generate(ast, options) on the tree parse(input) returned, up to the first
\* statement of generateConfig; a text fed back is rendered with the options of
\* the call that produced it.
GenerateParsed(given) ==
    /\ parseStatus = "parsed"
    /\ status = "idle"
    /\ previous # <<>> => given = givenOptions
    /\ ast' = AsRead(parseResult)
    /\ givenOptions' = given
    /\ options' = GeneratorOptions(given)
    /\ currentFile' = NoPath
    /\ indentLevel' = 0
    /\ variables' = CollectVariables(ast', EmptyTable)
    /\ importStack' = <<>>
    /\ processedFiles' = EmptyTable
    /\ stack' = <<Frame("config", ast'.children, NoLine, NoLine, NoPath)>>
    /\ status' = "running"
    /\ output' = <<>>
    /\ error' = NoError
    /\ parseCount' = [p \in AllPaths |-> 0]
    /\ UNCHANGED <<tokenizerVars, parserVars, fs>>

\* parse(output): the text generate() returned is the next input.
FeedBack ==
    /\ status = "done"
    /\ Len(previous) < MaxRounds
    /\ previous' = Append(previous, output)
    /\ input' = Characters(TextOf(output))
    /\ position' = 1
    /\ currentLine' = 1
    /\ currentColumn' = 1
    /\ tokens' = <<>>
    /\ parseStatus' = "scanning"
    /\ parseResult' = Config(<<>>)
    /\ parseError' = NoError
    /\ status' = "idle"
    /\ UNCHANGED <<environment, fs, ast, givenOptions, options, currentFile, indentLevel,
                   variables, importStack, processedFiles, stack, output, error, parseCount>>

NextText ==
    \/ \E text \in Texts : ParseInput(text)
    \/ ReadToken
    \/ EndOfInput
    \/ Parse
    \/ \E given \in GivenOptions : GenerateParsed(given)
    \/ GenerateDirective
    \/ GenerateBlock
    \/ GenerateLocation
    \/ GenerateSingleLocation
    \/ FinishBlock
    \/ FinishLocations
    \/ FinishConfig
    \/ FeedBack

SpecText == InitText /\ [][NextText]_vars

\* tokenize() is a loop that runs until it returns or throws.
SpecTextFair == SpecText /\ WF_vars(ReadToken) /\ WF_vars(EndOfInput)

-----------------------------------------------------------------------------
(* Text in, text out: claims *)

FirstInput == previous = <<>> /\ parseStatus # "idle"
Tokenized == parseStatus \in {"ready", "parsed"} \/ (parseStatus = "failed" /\ tokens # <<>>
                                                     /\ tokens[Len(tokens)].type = "EOF")
TokenizeFailed == parseStatus = "failed" /\ parseError.message = "Unterminated string"

\* C12 as stated: a text that was generated, parsed and generated again with
\* the same options, is generated unchanged: it tokenizes, it parses, and the
\* second text is the first.
C12_RoundTripIdempotent ==
    previous # <<>> =>
        /\ parseStatus # "failed"
        /\ status = "done" => output = previous[Len(previous)]

\* C13 as stated: a text of plain directives and blocks is generated with the
\* names, the arguments and the nesting it was written with: each directive on
\* one line, its arguments as written and separated by one space, each block's
\* statements one level deeper between its header and its closing brace.
C13_StructurePreserved ==
    \A source \in PlainSources :
        (FirstInput /\ input = Characters(source.text)) =>
            /\ parseStatus # "failed"
            /\ status = "done" => output = Trim(ExpandedLines(source.tree, 0))

Quotes == {"\"", "'"}
QuoteIndexes == {i \in 1..Len(input) : input[i] \in Quotes}
LineOf(text, at) == 1 + Cardinality({i \in 1..(at - 1) : text[i] = "\n"})
ColumnOf(text, at) ==
    LET breaks == {i \in 1..(at - 1) : text[i] = "\n"}
    IN  IF breaks = {} THEN at
        ELSE at - (CHOOSE i \in breaks : \A j \in breaks : j <= i)

\* C14 as stated, for a text with one quote character, which no other can
\* close: outside a comment it makes tokenize throw 'Unterminated string' and
\* return nothing, and the error carries the line and the column of that
\* quote.
C14_UnterminatedStringReported ==
    (Cardinality(QuoteIndexes) = 1 /\ parseStatus \notin {"idle", "scanning"}) =>
        LET quoteAt == CHOOSE i \in QuoteIndexes : TRUE
        IN  /\ "#" \notin Range(input) => TokenizeFailed
            /\ TokenizeFailed =>
                  /\ parseError.line = LineOf(input, quoteAt)
                  /\ parseError.column = ColumnOf(input, quoteAt)

\* The characters from..(to - 1) are whitespace and comments, a comment
\* running from '#' to the end of its line.
RECURSIVE IsSkippable(_, _, _)
IsSkippable(text, from, to) ==
    IF from >= to THEN from = to
    ELSE IF text[from] \in Whitespace THEN IsSkippable(text, from + 1, to)
    ELSE IF text[from] = "#"
    THEN LET ends == {i \in from..Len(text) : text[i] = "\n"}
             end == IF ends = {} THEN Len(text) + 1
                    ELSE CHOOSE i \in ends : \A j \in ends : i <= j
         IN  IsSkippable(text, end, to)
    ELSE FALSE

EndOfFileTokens == {i \in 1..Len(tokens) : tokens[i].type = "EOF"}
KnownStarts ==
    SingleCharacters \cup Quotes \cup Digits \cup Letters \cup {"$", "@", "~", "^"}

\* Until tokenize returns there is no end-of-file token; once it has returned
\* there is one, the last token. It throws only 'Unterminated string', and
\* only on a text that holds a quote.
C15_EndOfFileLast ==
    /\ parseStatus \in {"idle", "scanning"} => EndOfFileTokens = {}
    /\ parseStatus \in {"ready", "parsed"} => EndOfFileTokens = {Len(tokens)}
    /\ (parseStatus = "failed" /\ EndOfFileTokens = {}) =>
          /\ TokenizeFailed
          /\ QuoteIndexes # {}
    /\ position <= Len(input) + 1

\* A turn of the loop that pushes a token has skipped whitespace and comments
\* only, and the token is made of every character from the first one left to
\* the new position, at least one: a string from its opening to its closing
\* quote, any other token with these characters as its value; a first
\* character that starts no other kind of token starts an identifier.
C15_ReadTokenStep ==
    (parseStatus = "scanning" /\ tokens' # tokens /\ parseStatus' = "scanning") =>
        /\ Len(tokens') = Len(tokens) + 1
        /\ position' > position
        /\ \E start \in position..(position' - 1) :
              LET token == tokens'[Len(tokens')]
              IN  /\ IsSkippable(input, position, start)
                  /\ input[start] \notin Whitespace \cup {"#"}
                  /\ IF token.type = "String"
                     THEN /\ input[start] \in Quotes
                          /\ position' - 1 > start
                          /\ input[position' - 1] = input[start]
                     ELSE token.value = Str(SubSeq(input, start, position' - 1))
                  /\ input[start] \notin KnownStarts => token.type = "Identifier"

\* The turn that ends the loop has only whitespace and comments left.
C15_EndOfInputStep ==
    (parseStatus = "scanning" /\ parseStatus' = "ready") =>
        /\ IsSkippable(input, position, Len(input) + 1)
        /\ tokens' = Append(tokens, tokens'[Len(tokens')])
        /\ tokens'[Len(tokens')].type = "EOF"

\* C15: tokenize ends on every text: each readToken consumes at least one
\* character, whitespace and comments give no token, no character is
\* rejected (one that starts no other token starts an identifier), and the
\* tokens returned end in the one end-of-file token.
C15_TokenizeTerminates ==
    /\ []C15_EndOfFileLast
    /\ [][C15_ReadTokenStep /\ C15_EndOfInputStep]_vars
    /\ (parseStatus = "scanning") ~> (parseStatus # "scanning")

\* C15 witness: 'server_name example.com!; # name' has been tokenized: the
\* '!' is in the identifier, the comment gave nothing.
C15_Witness ==
    /\ input = Characters("server_name example.com!; # name\n")
    /\ parseStatus = "ready"
    /\ tokens = <<Token("Identifier", "server_name", 1),
                  Token("Identifier", "example.com!", 1),
                  Token("Semicolon", ";", 1),
                  Token("EOF", "", 2)>>

\* C16 as stated: a directive without its semicolon, followed by a statement
\* on a later line, makes parse throw 'Expected ;'.
C16_MissingSemicolonFails ==
    (FirstInput /\ input \in {Characters(text) : text \in MissingSemicolonTexts}
                /\ parseStatus \notin {"idle", "scanning", "ready"}) =>
        /\ parseStatus = "failed"
        /\ parseError.message = "Expected ; after directive"

-----------------------------------------------------------------------------
(* Environment references from parse to generate: the tokens of a source are  *)
(* parsed and the tree returned is rendered, the environment as it is.        *)

NextEnv ==
    \/ Parse
    \/ \E given \in GivenOptions : GenerateParsed(given)
    \/ GenerateDirective
    \/ SkipVariableAssignment
    \/ GenerateBlock
    \/ GenerateLocation
    \/ GenerateSingleLocation
    \/ GenerateInline
    \/ GenerateEnvironmentVariable
    \/ FinishBlock
    \/ FinishLocations
    \/ FinishInline
    \/ FinishConfig
    \/ Propagate
    \/ GenerateThrows

SpecEnv == InitParse /\ [][NextEnv]_vars

\* A tree holds an environment-reference node.
RECURSIVE ContainsReference(_)
ContainsReference(node) ==
    \/ node.type = "env_var"
    \/ /\ "children" \in DOMAIN node
       /\ \E i \in 1..Len(node.children) : ContainsReference(node.children[i])
    \/ /\ "value" \in DOMAIN node
       /\ ContainsReference(node.value)

StatementTree(shape, ref) ==
    CASE shape = "statement_first" -> Config(<<ref, Directive("listen", <<"80">>)>>)
      [] shape = "statement_last" -> Config(<<Directive("listen", <<"80">>), ref>>)
      [] shape = "statement_in_block" -> Config(<<Block("server", <<>>, <<ref>>)>>)
StatementShapes == {"statement_first", "statement_last", "statement_in_block"}

\* The text generate returns for such a tree: the reference's value is a line
\* of its own, as it is, unless it is empty.
ValueLines(value) == IF value = "" THEN <<>> ELSE <<Line("", value)>>
StatementLines(shape, value) ==
    CASE shape = "statement_first" -> ValueLines(value) \o <<Line("", "listen 80;")>>
      [] shape = "statement_last" -> <<Line("", "listen 80;")>> \o ValueLines(value)
      [] shape = "statement_in_block" ->
            <<Line("", "server {")>> \o ValueLines(value) \o <<Line("", "}")>>

-----------------------------------------------------------------------------
(* Locations and their paths *)

\* Every location node of a tree has at least one path.
RECURSIVE LocationsHavePaths(_)
LocationsHavePaths(node) ==
    /\ node.type = "location" => node.paths # <<>>
    /\ "children" \in DOMAIN node =>
          \A i \in 1..Len(node.children) : LocationsHavePaths(node.children[i])
    /\ "value" \in DOMAIN node => LocationsHavePaths(node.value)

\* C23: every location node of a tree parse returned has at least one path,
\* and generate never comes to render a location without one.
C23_LocationHasPath ==
    /\ parseStatus = "parsed" => LocationsHavePaths(parseResult)
    /\ error # PathUndefined
    /\ Dispatches("location") => NextNode.paths # <<>>

-----------------------------------------------------------------------------
(* The condition of an 'if' *)

StartsWithIf == tokens[1].type = "Identifier" /\ tokens[1].value = "if"
Parenthesized == tokens[2].type = "LeftParen"
ConditionStart == IF Parenthesized THEN 3 ELSE 2

Values(ts, first, last) == [k \in 1..(last + 1 - first) |-> ts[first + k - 1].value]

\* The closing parenthesis that balances the one at ConditionStart - 1, 0 if
\* there is none.
RECURSIVE BalancedClose(_, _)
BalancedClose(i, depth) ==
    IF i > Len(tokens) THEN 0
    ELSE IF tokens[i].type = "RightParen"
    THEN IF depth = 0 THEN i ELSE BalancedClose(i + 1, depth - 1)
    ELSE IF tokens[i].type = "LeftParen" THEN BalancedClose(i + 1, depth + 1)
    ELSE BalancedClose(i + 1, depth)

\* The first token at or after i of one of the types, Len(tokens) (the
\* end-of-file token) if there is none.
FirstOf(i, types) ==
    CHOOSE j \in i..Len(tokens) :
        /\ tokens[j].type \in types \cup {"EOF"}
        /\ \A k \in i..(j - 1) : tokens[k].type \notin types \cup {"EOF"}

IfBlockParsed(args) ==
    /\ parseStatus = "parsed"
    /\ Len(parseResult.children) = 1
    /\ parseResult.children[1].type = "block"
    /\ parseResult.children[1].name = "if"
    /\ parseResult.children[1].args = args

\* C26 as stated: a parenthesized condition ends at the closing parenthesis
\* that balances the opening one, and the body after it parses.
C26_Original ==
    (StartsWithIf /\ Parenthesized /\ parseStatus # "ready"
     /\ BalancedClose(3, 0) # 0 /\ tokens[BalancedClose(3, 0) + 1].type = "LeftBrace")
    => IfBlockParsed(Values(tokens, 3, BalancedClose(3, 0) - 1))

\* C26, amended: an 'if' parses as a block named 'if' or fails. A
\* parenthesized condition ends at the first closing parenthesis after the
\* opening one, nested or not, or at the first opening brace if that comes
\* earlier; the arguments are the values of the tokens before it, a closing
\* parenthesis is consumed, and unless an opening brace is the next token the
\* parse fails with 'Expected {'. Without parentheses the arguments are the
\* values of all tokens up to the first opening brace.
C26_IfConditionEndsAtFirstClose ==
    (StartsWithIf /\ parseStatus # "ready") =>
        LET stop == FirstOf(ConditionStart,
                            IF Parenthesized THEN {"LeftBrace", "RightParen"}
                            ELSE {"LeftBrace"})
            body == IF tokens[stop].type = "RightParen" THEN stop + 1 ELSE stop
        IN  IF tokens[body].type = "LeftBrace"
            THEN IfBlockParsed(Values(tokens, ConditionStart, stop - 1))
            ELSE /\ parseStatus = "failed"
                 /\ parseError = ParserError("Expected {", tokens, body)

\* C26 witness: 'if ($a ~ (x)) { return 200; }' has failed to parse: after
\* the first ')' the parser met the second one where it expected '{'.
C26_Witness ==
    /\ tokens = SourceTokens("if_nested", CHOOSE r \in References : TRUE,
                             CHOOSE r \in References : TRUE)
    /\ parseStatus = "failed"
    /\ parseError = ParserError("Expected {", tokens, 8)

-----------------------------------------------------------------------------
(* Termination of parse *)

\* parse(input), once called, runs to its end.
SpecParseFair == SpecParse /\ WF_parseStatus(Parse)

\* Wherever a statement starts, parseStatement returns with the cursor
\* further on, and not beyond the end-of-file token, or throws.
C29_StatementConsumes ==
    \A cur \in 1..(Len(tokens) - 1) :
        LET statement == ParseStatement(tokens, cur, environment)
        IN  statement.ok => cur < statement.cur /\ statement.cur <= Len(tokens)
\* parse returns when the cursor is on the end-of-file token, or throws.
C29_LoopEndsAtEndOfFile ==
    LET result == ParseTokens(tokens, environment)
    IN  IF result.ok THEN result.cur = Len(tokens) /\ result.node.type = "config"
        ELSE "node" \notin DOMAIN result
C29_NoTreeOnFailure ==
    /\ parseStatus = "failed" => parseResult = Config(<<>>) /\ parseError # NoError
    /\ parseStatus = "parsed" => parseError = NoError

\* C29: parse terminates on every token sequence that ends with the
\* end-of-file token: a statement parsed has consumed at least one token, the
\* cursor never passes the end-of-file token, and parse ends with a tree or,
\* having thrown, with none.
C29_ParseTerminates ==
    /\ []C29_StatementConsumes
    /\ []C29_LoopEndsAtEndOfFile
    /\ []C29_NoTreeOnFailure
    /\ <>(parseStatus \in {"parsed", "failed"})

\* C29 witness: two statements on two lines were parsed, the second from where
\* the first ended, up to the end-of-file token.
C29_Witness ==
    /\ parseStatus = "parsed"
    /\ Len(parseResult.children) = 2
    /\ ParseStatement(tokens, 1, environment).ok
    /\ ParseStatement(tokens, 1, environment).cur > 1
    /\ ParseStatement(tokens, ParseStatement(tokens, 1, environment).cur, environment).cur
           = Len(tokens)
====
